---- MODULE Spec2Model ----
(***************************************************************************)
(* aetherus-events: the event codec (lib.rs, mcrt.rs), the source registry *)
(* and the prefix-sharing event ledger (ledger.rs) and the subsequence     *)
(* filter search (filter.rs).                                              *)
(***************************************************************************)
EXTENDS Integers, Sequences, FiniteSets, TLC

\* ------------------------------------------------------------------------
\* Bounds of the model
\* ------------------------------------------------------------------------
\* next_seq_id is not advanced beyond MaxSeq
MaxSeq == 4
\* the longest filter sequence handed to the search
MaxFilterLen == 2
\* the number of registry calls explored
MaxRegs == 4

\* ------------------------------------------------------------------------
\* Bit operations on unsigned words (Rust `&` and `|`)
\* ------------------------------------------------------------------------
RECURSIVE BitAnd(_, _)
BitAnd(a, b) ==
    IF a = 0 \/ b = 0 THEN 0
    ELSE (a % 2) * (b % 2) + 2 * BitAnd(a \div 2, b \div 2)

RECURSIVE BitOr(_, _)
BitOr(a, b) ==
    IF a = 0 THEN b
    ELSE IF b = 0 THEN a
    ELSE (IF a % 2 = 1 \/ b % 2 = 1 THEN 1 ELSE 0) + 2 * BitOr(a \div 2, b \div 2)

RECURSIVE Pow2(_)
Pow2(n) == IF n = 0 THEN 1 ELSE 2 * Pow2(n - 1)

\* ------------------------------------------------------------------------
\* Raw bit layout of the event word.  Every field is a (shift, width) pair
\* with a closed table of codes.
\* ------------------------------------------------------------------------
Invalid == "Invalid"

PipelineShift == 24
PipelineBits == 4
PipelineCodes == [Emission |-> 1, Mcrt |-> 3, Detection |-> 5, Processing |-> 7]

RawFields ==
    [MCRT       |-> [shift |-> 22, bits |-> 2,
                     codes |-> [Interface |-> 0, Reflector |-> 1, Material |-> 2]],
     Interface  |-> [shift |-> 16, bits |-> 6,
                     codes |-> [Reflection |-> 0, Refraction |-> 1, ReEmittance |-> 4]],
     Reflector  |-> [shift |-> 16, bits |-> 6,
                     codes |-> [Diffuse |-> 2, Specular |-> 4, Composite |-> 6,
                                RetroReflective |-> 8, CompRetroRef |-> 9]],
     Material   |-> [shift |-> 20, bits |-> 2,
                     codes |-> [Absorption |-> 0, Inelastic |-> 1, Elastic |-> 2]],
     Inelastic  |-> [shift |-> 18, bits |-> 2,
                     codes |-> [Raman |-> 0, Fluorescence |-> 1]],
     Elastic    |-> [shift |-> 18, bits |-> 2,
                     codes |-> [HenyeyGreenstein |-> 0, Mie |-> 1, Rayleigh |-> 2,
                                SphericalCdf |-> 3]],
     ScatterDir |-> [shift |-> 16, bits |-> 2,
                     codes |-> [Any |-> 0, Forward |-> 1, Side |-> 2, Backward |-> 3]],
     Emission   |-> [shift |-> 16, bits |-> 8,
                     codes |-> [PointSource |-> 0]]]

\* RawField::mask()
RawMask(field) ==
    (Pow2(RawFields[field].bits) - 1) * Pow2(RawFields[field].shift)

\* RawField::encode(): the variant's code shifted to the field's position
RawEncode(field, variant) ==
    RawFields[field].codes[variant] * Pow2(RawFields[field].shift)

\* RawField::decode(): the variant whose code is in the field, Invalid when
\* the code is outside the enumeration
RawDecode(field, raw) ==
    LET code == BitAnd(raw, RawMask(field)) \div Pow2(RawFields[field].shift)
        hits == {v \in DOMAIN RawFields[field].codes : RawFields[field].codes[v] = code}
    IN  IF hits = {} THEN Invalid ELSE CHOOSE v \in hits : TRUE

PipelineMask == (Pow2(PipelineBits) - 1) * Pow2(PipelineShift)

PipelineEncode(p) == PipelineCodes[p] * Pow2(PipelineShift)

\* RawEvent::pipeline for u32: ((self >> 24) & 0b1111) then Pipeline::try_from
PipelineDecode(raw) ==
    LET code == (raw \div Pow2(PipelineShift)) % Pow2(PipelineBits)
        hits == {p \in DOMAIN PipelineCodes : PipelineCodes[p] = code}
    IN  IF hits = {} THEN Invalid ELSE CHOOSE p \in hits : TRUE

SrcIdMask == 65535

\* impl RawField for SrcId, encode: the number of the id, 0 for None
SrcIdEncode(s) == IF s.kind = "None" THEN 0 ELSE s.id

\* ------------------------------------------------------------------------
\* Typed codec (mcrt.rs, lib.rs).  An event type is a taxonomy path, a
\* tuple of variant names: <<"Emission", "PointSource">>, <<"Detection">>,
\* <<"MCRT", "Interface", "Refraction">>,
\* <<"MCRT", "Material", "Elastic", "Mie", "Forward">>, ...
\* ------------------------------------------------------------------------
ScatterDirs == {"Any", "Forward", "Side", "Backward"}
InterfaceKinds == {"Reflection", "Refraction", "ReEmittance"}
ReflectorKinds == {"Diffuse", "Specular", "Composite", "RetroReflective",
                   "CompositeRetroReflective"}
InelasticKinds == {"Raman", "Fluorescence"}
ElasticKinds == {"HenyeyGreenstein", "Mie", "Rayleigh", "SphericalCdf"}
EmissionKinds == {"PointSource"}

McrtPaths ==
    {<<"MCRT", "Interface", k>> : k \in InterfaceKinds}
    \cup {<<"MCRT", "Reflector", k>> : k \in ReflectorKinds}
    \cup {<<"MCRT", "Material", "Absorption">>}
    \cup {<<"MCRT", "Material", "Inelastic", k, d>> : k \in InelasticKinds, d \in ScatterDirs}
    \cup {<<"MCRT", "Material", "Elastic", k, d>> : k \in ElasticKinds, d \in ScatterDirs}

TaxonomyPaths ==
    McrtPaths \cup {<<"Emission", k>> : k \in EmissionKinds} \cup {<<"Detection">>}

Tail2(p) == SubSeq(p, 2, Len(p))

\* ScatterDir::encode that places the direction one bit lower
ScatterDirEncodeShifted(d) == RawFields["ScatterDir"].codes[d] * Pow2(15)

\* impl Encode / Decode for ScatterDir
ScatterDirEncode(d) == RawEncode("ScatterDir", d)

ScatterDirDecode(raw) == RawDecode("ScatterDir", raw)

\* impl Encode / Decode for Elastic: p = <<kind, dir>>
ElasticEncode(p) == BitOr(RawEncode("Elastic", p[1]), ScatterDirEncode(p[2]))

ElasticDecode(raw) ==
    LET k == RawDecode("Elastic", raw)
    IN  IF k = Invalid THEN <<Invalid>> ELSE <<k, ScatterDirDecode(raw)>>

\* impl Encode / Decode for Inelastic: p = <<kind, dir>>
InelasticEncode(p) == BitOr(RawEncode("Inelastic", p[1]), ScatterDirEncode(p[2]))

InelasticDecode(raw) ==
    LET k == RawDecode("Inelastic", raw)
    IN  IF k = Invalid THEN <<Invalid>> ELSE <<k, ScatterDirDecode(raw)>>

\* Material::encode that drops the encoding of the nested scatter type
MaterialEncodeFlat(p) == RawEncode("Material", p[1])

\* impl Encode / Decode for Material: p = <<"Absorption">> or <<kind, ...>>
MaterialEncode(p) ==
    CASE p[1] = "Absorption" -> RawEncode("Material", "Absorption")
      [] p[1] = "Inelastic"  -> BitOr(RawEncode("Material", "Inelastic"), InelasticEncode(Tail2(p)))
      [] p[1] = "Elastic"    -> BitOr(RawEncode("Material", "Elastic"), ElasticEncode(Tail2(p)))

MaterialDecode(raw) ==
    LET k == RawDecode("Material", raw)
    IN  CASE k = "Absorption" -> <<"Absorption">>
          [] k = "Inelastic"  -> <<"Inelastic">> \o InelasticDecode(raw)
          [] k = "Elastic"    -> <<"Elastic">> \o ElasticDecode(raw)
          [] OTHER            -> <<Invalid>>

\* impl Encode / Decode for Reflector; the typed variant
\* CompositeRetroReflective is the raw variant CompRetroRef
ReflectorEncode(k) ==
    CASE k = "Diffuse"                  -> RawEncode("Reflector", "Diffuse")
      [] k = "Specular"                 -> RawEncode("Reflector", "Specular")
      [] k = "Composite"                -> RawEncode("Reflector", "Composite")
      [] k = "RetroReflective"          -> RawEncode("Reflector", "RetroReflective")
      [] k = "CompositeRetroReflective" -> RawEncode("Reflector", "CompRetroRef")

ReflectorDecode(raw) ==
    LET k == RawDecode("Reflector", raw)
    IN  CASE k = "Diffuse"         -> "Diffuse"
          [] k = "Specular"        -> "Specular"
          [] k = "Composite"       -> "Composite"
          [] k = "RetroReflective" -> "RetroReflective"
          [] k = "CompRetroRef"    -> "CompositeRetroReflective"
          [] OTHER                 -> Invalid

\* impl Encode / Decode for Interface
InterfaceEncode(k) ==
    CASE k = "Reflection"  -> RawEncode("Interface", "Reflection")
      [] k = "Refraction"  -> RawEncode("Interface", "Refraction")
      [] k = "ReEmittance" -> RawEncode("Interface", "ReEmittance")

InterfaceDecode(raw) == RawDecode("Interface", raw)

\* impl Encode / Decode for MCRT: p = <<supertype, ...>>
MCRTEncode(p) ==
    CASE p[1] = "Interface" -> BitOr(RawEncode("MCRT", "Interface"), InterfaceEncode(p[2]))
      [] p[1] = "Reflector" -> BitOr(RawEncode("MCRT", "Reflector"), ReflectorEncode(p[2]))
      [] p[1] = "Material"  -> BitOr(RawEncode("MCRT", "Material"), MaterialEncode(Tail2(p)))

MCRTDecode(raw) ==
    LET k == RawDecode("MCRT", raw)
    IN  CASE k = "Interface" -> <<"Interface", InterfaceDecode(raw)>>
          [] k = "Reflector" -> <<"Reflector", ReflectorDecode(raw)>>
          [] k = "Material"  -> <<"Material">> \o MaterialDecode(raw)
          [] OTHER           -> <<Invalid>>

\* emission::Emission encode / decode
EmissionEncode(k) == RawEncode("Emission", k)

EmissionDecode(raw) == RawDecode("Emission", raw)

\* An EventId is [event_type |-> taxonomy path, src_id |-> u16]
EventId(path, src) == [event_type |-> path, src_id |-> src]

\* impl Encode for EventId; Processing cannot be encoded (panic)
EventIdEncode(ev) ==
    LET p == ev.event_type
        event_type_code ==
            CASE p[1] = "MCRT"      -> BitOr(PipelineEncode("Mcrt"), MCRTEncode(Tail2(p)))
              [] p[1] = "Emission"  -> BitOr(PipelineEncode("Emission"), EmissionEncode(p[2]))
              [] p[1] = "Detection" -> PipelineEncode("Detection")
    IN  BitOr(event_type_code, ev.src_id)

\* impl Decode for EventId; a path that holds Invalid stands for the panic
\* of the decoder
EventIdDecode(raw) ==
    LET pipeline == PipelineDecode(raw)
        event_type ==
            CASE pipeline = "Mcrt"      -> <<"MCRT">> \o MCRTDecode(raw)
              [] pipeline = "Emission"  -> <<"Emission", EmissionDecode(raw)>>
              [] pipeline = "Detection" -> <<"Detection">>
              [] OTHER                  -> <<Invalid>>
    IN  [event_type |-> event_type, src_id |-> BitAnd(raw, SrcIdMask)]

\* ------------------------------------------------------------------------
\* Ledger (ledger.rs)
\* ------------------------------------------------------------------------
VARIABLES
    grps,             \* Ledger.grps: group name -> SrcId
    src_map,          \* Ledger.src_map: SrcId -> sequence of SrcName
    next_mat_id,      \* Ledger.next_mat_id
    next_surf_id,     \* Ledger.next_surf_id
    next_matsurf_id,  \* Ledger.next_matsurf_id
    next_light_id,    \* Ledger.next_light_id
    start_events,     \* Ledger.start_events: sequence of Uid
    next,             \* Ledger.next: seq_id -> (event -> seq_id)
    prev,             \* Ledger.prev: seq_id -> Uid
    next_seq_id,      \* Ledger.next_seq_id
    cur,              \* per worker: the Uid its last insert call returned
    chain,            \* per worker: the Uids returned for its current chain
    calls,            \* history: <<parent Uid, event>> -> Uid first returned
    last,             \* the last call: operation, arguments, result
    regs,             \* number of registry calls made so far
    first_ret,        \* history: <<operation, group>> -> SrcId first returned
    qpc,              \* find_forward_uid_seq: "idle", "run" or "done"
    qfilter,          \* find_forward_uid_seq: the bits_match_seq argument
    seq_queue,        \* find_forward_uid_seq: the work queue
    found_uids,       \* find_forward_uid_seq: the result list
    doc,              \* the persisted ledger document, NoDoc before it is written
    profile,          \* the build of the running process: "debug" or "release"
    uid_in,           \* Uid key: the Uid handed to Uid::encode
    uid_key,          \* Uid key: the 64-bit key
    uid_out,          \* Uid key: the Uid decoded from uid_key
    uid_text,         \* Uid text: the text handed to from_str
    uid_parsed,       \* Uid text: the result of from_str
    fargs,            \* filter_seq!: the arguments of the invocation
    built,            \* filter_seq!: the BitsMatch built, or FilterPanic
    cin,              \* codec: the EventId handed to encode
    craw,             \* codec: the word produced by encode
    cout              \* codec: the EventId decoded from craw

regVars == <<grps, src_map, next_mat_id, next_surf_id, next_matsurf_id, next_light_id, regs, first_ret>>
trieVars == <<start_events, next, prev, next_seq_id>>
workerVars == <<cur, chain, calls>>
queryVars == <<qpc, qfilter, seq_queue, found_uids>>
codecVars == <<cin, craw, cout>>
pureVars == <<uid_in, uid_key, uid_out, uid_text, uid_parsed, fargs, built>>
vars == <<regVars, trieVars, workerVars, last, queryVars, codecVars, doc, profile, pureVars>>

Workers == {"w1", "w2"}

\* Option::None of an Option<u32>
None == -1

EmptyMap == [x \in {} |-> 0]

MapPut(m, k, v) == [x \in DOMAIN m \cup {k} |-> IF x = k THEN v ELSE m[x]]

\* Uid::new
Uid(seq_id, event) == [seq_id |-> seq_id, event |-> event]

\* no Uid: a worker that holds none, a call that returned none
NoUid == [seq_id |-> None, event |-> 0]

\* The events the workers insert
EvEmit == EventId(<<"Emission", "PointSource">>, 1)
EvRefr == EventId(<<"MCRT", "Interface", "Refraction">>, 2)
EvAbs == EventId(<<"MCRT", "Material", "Absorption">>, 3)
Events == {EvEmit, EvRefr}

\* EventId::encode of the events the workers insert
Encoded == [e \in Events \cup {EvAbs} |-> EventIdEncode(e)]

\* Ledger::get_next_seq_id
GetNextSeqId(nx, uid) ==
    IF uid.seq_id \notin DOMAIN nx THEN None
    ELSE IF uid.event \notin DOMAIN nx[uid.seq_id] THEN None
    ELSE nx[uid.seq_id][uid.event]

\* insert_entry without the lookup of an existing edge
InsertEntryNoLookup(nx, pv, uid, nsi) ==
    LET nx1 == IF uid.seq_id \notin DOMAIN nx
               THEN MapPut(nx, uid.seq_id, EmptyMap) ELSE nx
    IN  [next |-> MapPut(nx1, uid.seq_id, MapPut(nx1[uid.seq_id], uid.event, nsi)),
         prev |-> MapPut(pv, nsi, uid),
         inserted |-> TRUE]

\* Ledger::insert_entry: the tables after the call and the returned flag
InsertEntry(nx, pv, uid, nsi) ==
    IF GetNextSeqId(nx, uid) = None
    THEN LET nx1 == IF uid.seq_id \notin DOMAIN nx
                    THEN MapPut(nx, uid.seq_id, EmptyMap) ELSE nx
         IN  [next |-> MapPut(nx1, uid.seq_id, MapPut(nx1[uid.seq_id], uid.event, nsi)),
              prev |-> MapPut(pv, nsi, uid),
              inserted |-> TRUE]
    ELSE [next |-> nx, prev |-> pv, inserted |-> FALSE]

\* Ledger::get_prev
GetPrev(pv, seq_id) == IF seq_id \in DOMAIN pv THEN pv[seq_id] ELSE NoUid

\* Ledger::get_chain: the loop pushes get_prev until it is None, then the
\* list is reversed.  fuel bounds the walk; a walk that runs out of fuel
\* (a cycle in prev) yields << >>.
RECURSIVE ChainBack(_, _, _)
ChainBack(pv, seq_id, fuel) ==
    LET uid == GetPrev(pv, seq_id)
    IN  IF uid = NoUid THEN << >>
        ELSE IF fuel = 0 THEN <<NoUid>>
        ELSE Append(ChainBack(pv, uid.seq_id, fuel - 1), uid)

GetChain(pv, last_uid) ==
    Append(ChainBack(pv, last_uid.seq_id, Cardinality(DOMAIN pv)), last_uid)

\* the events of a set in ascending order (BTreeMap iteration order)
RECURSIVE SortedSeq(_)
SortedSeq(S) ==
    IF S = {} THEN << >>
    ELSE LET m == CHOOSE x \in S : \A y \in S : x <= y
         IN  <<m>> \o SortedSeq(S \ {m})

\* Ledger::get_next
GetNext(nx, uid) ==
    LET next_seq_id_ == GetNextSeqId(nx, uid)
    IN  IF next_seq_id_ = None THEN << >>
        ELSE IF next_seq_id_ \notin DOMAIN nx THEN << >>
        ELSE LET evs == SortedSeq(DOMAIN nx[next_seq_id_])
             IN  [i \in 1..Len(evs) |-> Uid(next_seq_id_, evs[i])]

\* Option::None of an Option<String>
NoGroup == "<none>"

\* no Uid has been handed to Uid::encode; its fields are u32 words, each a
\* pair <<high 16 bits, low 16 bits>>
NoKeyUid == [seq_id |-> <<0, 0>>, event |-> <<0, 0>>]

\* no ledger document has been written
NoDoc == [next_seq_id |-> None]

\* no SrcName: the call registers none
NoName == [kind |-> "None", text |-> << >>]

\* a call on the trie: operation, arguments, returned Uid, whether it
\* returned (TRUE) or panicked (FALSE)
Call(op, parent, event, ret, ok) ==
    [op |-> op, parent |-> parent, event |-> event, ret |-> ret, ok |-> ok,
     grp |-> NoGroup, src |-> [kind |-> "None", id |-> 0], name |-> NoName,
     warned |-> {}]

\* a call on the registry: operation, group argument, the SrcName it
\* registers, returned SrcId
RegCall(op, grp, name, src, ok) ==
    [op |-> op, parent |-> NoUid, event |-> 0, ret |-> NoUid, ok |-> ok,
     grp |-> grp, src |-> src, name |-> name, warned |-> {}]

NoCall == Call("none", NoUid, 0, NoUid, TRUE)

Record(cs, parent, event, ret) ==
    IF <<parent, event>> \in DOMAIN cs THEN cs ELSE MapPut(cs, <<parent, event>>, ret)

\* Ledger::new, no worker holds a Uid, no search is running
Init ==
    /\ grps = EmptyMap
    /\ src_map = EmptyMap
    /\ next_mat_id = 0
    /\ next_surf_id = 0
    /\ next_matsurf_id = 65535
    /\ next_light_id = 0
    /\ regs = 0
    /\ first_ret = EmptyMap
    /\ start_events = << >>
    /\ next = EmptyMap
    /\ prev = EmptyMap
    /\ next_seq_id = 0
    /\ cur = [w \in Workers |-> NoUid]
    /\ chain = [w \in Workers |-> << >>]
    /\ calls = EmptyMap
    /\ last = NoCall
    /\ qpc = "idle"
    /\ qfilter = << >>
    /\ seq_queue = << >>
    /\ found_uids = << >>
    /\ cin = EventId(<< >>, 0)
    /\ craw = 0
    /\ cout = EventId(<< >>, 0)
    /\ doc = NoDoc
    /\ profile = "debug"
    /\ uid_in = NoKeyUid
    /\ uid_key = <<0, 0, 0, 0>>
    /\ uid_out = NoKeyUid
    /\ uid_text = << >>
    /\ uid_parsed = NoUid
    /\ fargs = << >>
    /\ built = [mask |-> 0, value |-> 0]

\* insert_start that pushes the root onto start_events on every call
InsertStartAlwaysPush(w, start_event) ==
    LET uid == Uid(0, Encoded[start_event])
        r == InsertEntry(next, prev, uid, 1)
    IN  /\ qpc = "idle"
        /\ next' = r.next
        /\ prev' = r.prev
        /\ start_events' = Append(start_events, uid)
        /\ next_seq_id' = IF next_seq_id = 0 THEN 2 ELSE next_seq_id
        /\ cur' = [cur EXCEPT ![w] = uid]
        /\ chain' = [chain EXCEPT ![w] = <<uid>>]
        /\ calls' = Record(calls, NoUid, uid.event, uid)
        /\ last' = Call("insert_start", NoUid, uid.event, uid, TRUE)
        /\ UNCHANGED <<regVars, queryVars, codecVars, doc, profile, pureVars>>

\* insert_start that records only the first root in start_events
InsertStartPushesOnce(w, start_event) ==
    LET uid == Uid(0, Encoded[start_event])
        r == InsertEntry(next, prev, uid, 1)
    IN  /\ qpc = "idle"
        /\ next' = r.next
        /\ prev' = r.prev
        /\ start_events' = IF r.inserted /\ start_events = << >>
                           THEN Append(start_events, uid) ELSE start_events
        /\ next_seq_id' = IF next_seq_id = 0 THEN 2 ELSE next_seq_id
        /\ cur' = [cur EXCEPT ![w] = uid]
        /\ chain' = [chain EXCEPT ![w] = <<uid>>]
        /\ calls' = Record(calls, NoUid, uid.event, uid)
        /\ last' = Call("insert_start", NoUid, uid.event, uid, TRUE)
        /\ UNCHANGED <<regVars, queryVars, codecVars, doc, profile, pureVars>>

\* insert_start that leaves the allocator at 0 after the first root
InsertStartKeepsAllocator(w, start_event) ==
    LET uid == Uid(0, Encoded[start_event])
        r == InsertEntry(next, prev, uid, 1)
    IN  /\ qpc = "idle"
        /\ next' = r.next
        /\ prev' = r.prev
        /\ start_events' = IF r.inserted THEN Append(start_events, uid) ELSE start_events
        /\ next_seq_id' = next_seq_id
        /\ cur' = [cur EXCEPT ![w] = uid]
        /\ chain' = [chain EXCEPT ![w] = <<uid>>]
        /\ calls' = Record(calls, NoUid, uid.event, uid)
        /\ last' = Call("insert_start", NoUid, uid.event, uid, TRUE)
        /\ UNCHANGED <<regVars, queryVars, codecVars, doc, profile, pureVars>>

\* Ledger::insert_start, called by worker w to begin a chain
InsertStart(w, start_event) ==
    LET uid == Uid(0, Encoded[start_event])
        r == InsertEntry(next, prev, uid, 1)
    IN  /\ qpc = "idle"
        /\ next' = r.next
        /\ prev' = r.prev
        /\ start_events' = IF r.inserted THEN Append(start_events, uid) ELSE start_events
        /\ next_seq_id' = IF next_seq_id = 0 THEN 2 ELSE next_seq_id
        /\ cur' = [cur EXCEPT ![w] = uid]
        /\ chain' = [chain EXCEPT ![w] = <<uid>>]
        /\ calls' = Record(calls, NoUid, uid.event, uid)
        /\ last' = Call("insert_start", NoUid, uid.event, uid, TRUE)
        /\ UNCHANGED <<regVars, queryVars, codecVars, doc, profile, pureVars>>

\* insert that does not advance the allocator
InsertOkKeepsAllocator(w, prev_event, event) ==
    LET nsi == GetNextSeqId(next, prev_event)
        uid == Uid(nsi, Encoded[event])
        r == InsertEntry(next, prev, uid, next_seq_id)
    IN  /\ nsi # None
        /\ r.inserted => Cardinality(DOMAIN next) < MaxSeq
        /\ next' = r.next
        /\ prev' = r.prev
        /\ next_seq_id' = next_seq_id
        /\ cur' = [cur EXCEPT ![w] = uid]
        /\ chain' = [chain EXCEPT ![w] = Append(@, uid)]
        /\ calls' = Record(calls, prev_event, uid.event, uid)
        /\ last' = Call("insert", prev_event, uid.event, uid, TRUE)
        /\ UNCHANGED <<start_events, regVars, queryVars, codecVars, doc, profile, pureVars>>

\* insert that returns the freshly allocated seq_id instead of the position
\* registered for the parent
InsertOkReturnsAllocated(w, prev_event, event) ==
    LET nsi == GetNextSeqId(next, prev_event)
        uid == Uid(next_seq_id, Encoded[event])
        r == InsertEntry(next, prev, uid, next_seq_id)
    IN  /\ nsi # None
        /\ r.inserted => next_seq_id < MaxSeq
        /\ next' = r.next
        /\ prev' = r.prev
        /\ next_seq_id' = IF r.inserted THEN next_seq_id + 1 ELSE next_seq_id
        /\ cur' = [cur EXCEPT ![w] = uid]
        /\ chain' = [chain EXCEPT ![w] = Append(@, uid)]
        /\ calls' = Record(calls, prev_event, uid.event, uid)
        /\ last' = Call("insert", prev_event, uid.event, uid, TRUE)
        /\ UNCHANGED <<start_events, regVars, queryVars, codecVars, doc, profile, pureVars>>

\* Ledger::insert on a parent the ledger knows: worker w extends its chain
InsertOk(w, prev_event, event) ==
    LET nsi == GetNextSeqId(next, prev_event)
        uid == Uid(nsi, Encoded[event])
        r == InsertEntry(next, prev, uid, next_seq_id)
    IN  /\ nsi # None
        /\ r.inserted => next_seq_id < MaxSeq
        /\ next' = r.next
        /\ prev' = r.prev
        /\ next_seq_id' = IF r.inserted THEN next_seq_id + 1 ELSE next_seq_id
        /\ cur' = [cur EXCEPT ![w] = uid]
        /\ chain' = [chain EXCEPT ![w] = Append(@, uid)]
        /\ calls' = Record(calls, prev_event, uid.event, uid)
        /\ last' = Call("insert", prev_event, uid.event, uid, TRUE)
        /\ UNCHANGED <<start_events, regVars, queryVars, codecVars, doc, profile, pureVars>>

\* insert that takes its seq_id from the allocator before it resolves the
\* parent
InsertPanicAfterAllocation(w, prev_event, event) ==
    /\ GetNextSeqId(next, prev_event) = None
    /\ next_seq_id < MaxSeq
    /\ next_seq_id' = next_seq_id + 1
    /\ last' = Call("insert", prev_event, Encoded[event], NoUid, FALSE)
    /\ UNCHANGED <<start_events, next, prev, workerVars, regVars, queryVars, codecVars, doc, profile, pureVars>>

\* Ledger::insert on a parent without a position: the unwrap of
\* get_next_seq_id panics before anything is written
InsertPanic(w, prev_event, event) ==
    /\ GetNextSeqId(next, prev_event) = None
    /\ last' = Call("insert", prev_event, Encoded[event], NoUid, FALSE)
    /\ UNCHANGED <<trieVars, workerVars, regVars, queryVars, codecVars, doc, profile, pureVars>>

\* Ledger::insert
Insert(w, prev_event, event) ==
    /\ qpc = "idle"
    /\ \/ InsertOk(w, prev_event, event)
       \/ InsertPanic(w, prev_event, event)

\* the Uids a worker may hand to insert as the parent: the one it holds, or
\* one that comes from elsewhere (another ledger, a corrupted value)
\* EvAbs is never inserted and no position beyond MaxSeq is ever allocated,
\* so none of the foreign Uids has a position in the ledger
ForeignUids ==
    {Uid(0, Encoded[EvAbs]), Uid(1, Encoded[EvAbs]), Uid(MaxSeq + 3, Encoded[EvEmit])}

ParentsOf(w) == ({cur[w]} \ {NoUid}) \cup ForeignUids

NextLedger ==
    \E w \in Workers, e \in Events :
        \/ InsertStart(w, e)
        \/ \E p \in ParentsOf(w) : Insert(w, p, e)

SpecLedger == Init /\ [][NextLedger]_vars

\* ------------------------------------------------------------------------
\* Filter construction and search (filter.rs)
\* ------------------------------------------------------------------------
\* A SrcId is [kind |-> "None" | "Mat" | "Surf" | "MatSurf" | "Light", id |-> u16]
SrcId(kind, id) == [kind |-> kind, id |-> id]

SrcNone == SrcId("None", 0)

\* BitsMatch::new
BitsMatch(mask, value) == [mask |-> mask, value |-> value]

\* a failed assert! / panic! of filter construction
FilterPanic == BitsMatch(-1, -1)

\* filter_emit_seq!($src_id)
FilterEmitSeq1(src_id) ==
    IF src_id # SrcNone
    THEN IF src_id.kind = "Light" THEN BitsMatch(SrcIdMask, src_id.id) ELSE FilterPanic
    ELSE BitsMatch(0, 0)

\* filter_detect_seq!($src_id)
FilterDetectSeq1(src_id) ==
    IF src_id = SrcNone THEN BitsMatch(0, 0) ELSE FilterPanic

\* filter_mcrt_seq!($supertype, $subtype, $src_id); subtype "_" is the
\* wildcard
FilterMcrtSeq3(supertype, subtype, src_id) ==
    IF src_id # SrcNone /\ src_id.kind \notin {"Mat", "Surf", "MatSurf"} THEN FilterPanic
    ELSE LET mask0 == RawMask("MCRT")
             value0 == RawEncode("MCRT", supertype)
             mask1 == IF subtype # "_" THEN BitOr(mask0, RawMask(supertype)) ELSE mask0
             value1 == IF subtype # "_" THEN BitOr(value0, RawEncode(supertype, subtype))
                       ELSE value0
             mask2 == IF src_id # SrcNone THEN BitOr(mask1, SrcIdMask) ELSE mask1
             value2 == IF src_id # SrcNone THEN BitOr(value1, src_id.id) ELSE value1
         IN  BitsMatch(mask2, value2)

\* filter_seq!($pipeline, $src_id)
FilterSeq2(pipeline, src_id) ==
    CASE pipeline = "Emission" ->
            LET mv == FilterEmitSeq1(src_id)
            IN  IF mv = FilterPanic THEN FilterPanic
                ELSE BitsMatch(BitOr(mv.mask, PipelineMask),
                               BitOr(mv.value, PipelineEncode("Emission")))
      [] pipeline = "Detection" ->
            LET mv == FilterDetectSeq1(src_id)
            IN  IF mv = FilterPanic THEN FilterPanic
                ELSE BitsMatch(BitOr(mv.mask, PipelineMask),
                               BitOr(mv.value, PipelineEncode("Detection")))
      [] OTHER -> FilterPanic

\* filter_seq!(MCRT, $supertype, $subtype, $src_id)
FilterSeq4Mcrt(supertype, subtype, src_id) ==
    LET mv == FilterMcrtSeq3(supertype, subtype, src_id)
    IN  IF mv = FilterPanic THEN FilterPanic
        ELSE BitsMatch(BitOr(mv.mask, PipelineMask), BitOr(mv.value, PipelineEncode("Mcrt")))

\* filter_emit_seq!($supertype, $subtype, $src_id)
FilterEmitSeq3(supertype, subtype, src_id) ==
    IF src_id # SrcNone
    THEN IF src_id.kind = "Light" THEN BitsMatch(SrcIdMask, src_id.id) ELSE FilterPanic
    ELSE BitsMatch(0, 0)

\* filter_emit_seq!($supertype, $subtype, $scatter, $dir, $src_id)
FilterEmitSeq5(supertype, subtype, scatter, dir, src_id) == BitsMatch(0, 0)

\* filter_detect_seq!($supertype, $subtype, $src_id)
FilterDetectSeq3(supertype, subtype, src_id) == BitsMatch(0, 0)

\* filter_detect_seq!($supertype, $subtype, $scatter, $dir, $src_id)
FilterDetectSeq5(supertype, subtype, scatter, dir, src_id) == BitsMatch(0, 0)

\* the five-argument arm without the mask of the scatter type
FilterMcrtSeq5NoScatterMask(supertype, subtype, scatter, dir, src_id) ==
    IF src_id # SrcNone /\ src_id.kind \notin {"Mat", "Surf", "MatSurf"} THEN FilterPanic
    ELSE LET mask0 == RawMask("MCRT")
             value0 == RawEncode("MCRT", supertype)
             mask1 == IF subtype # "_" THEN BitOr(mask0, RawMask(supertype)) ELSE mask0
             value1 == IF subtype # "_" THEN BitOr(value0, RawEncode(supertype, subtype))
                       ELSE value0
             mask3 == IF dir # "_" THEN BitOr(mask1, RawMask("ScatterDir")) ELSE mask1
             value3 == IF dir # "_" THEN BitOr(value1, RawEncode("ScatterDir", dir))
                       ELSE value1
             mask4 == IF src_id # SrcNone THEN BitOr(mask3, SrcIdMask) ELSE mask3
             value4 == IF src_id # SrcNone THEN BitOr(value3, src_id.id) ELSE value3
         IN  BitsMatch(mask4, value4)

\* filter_mcrt_seq!($supertype, $subtype, $scatter, $dir, $src_id)
FilterMcrtSeq5(supertype, subtype, scatter, dir, src_id) ==
    IF src_id # SrcNone /\ src_id.kind \notin {"Mat", "Surf", "MatSurf"} THEN FilterPanic
    ELSE LET mask0 == RawMask("MCRT")
             value0 == RawEncode("MCRT", supertype)
             mask1 == IF subtype # "_" THEN BitOr(mask0, RawMask(supertype)) ELSE mask0
             value1 == IF subtype # "_" THEN BitOr(value0, RawEncode(supertype, subtype))
                       ELSE value0
             mask2 == IF scatter # "_" THEN BitOr(mask1, RawMask(subtype)) ELSE mask1
             value2 == IF scatter # "_" THEN BitOr(value1, RawEncode(subtype, scatter))
                       ELSE value1
             mask3 == IF dir # "_" THEN BitOr(mask2, RawMask("ScatterDir")) ELSE mask2
             value3 == IF dir # "_" THEN BitOr(value2, RawEncode("ScatterDir", dir))
                       ELSE value2
             mask4 == IF src_id # SrcNone THEN BitOr(mask3, SrcIdMask) ELSE mask3
             value4 == IF src_id # SrcNone THEN BitOr(value3, src_id.id) ELSE value3
         IN  BitsMatch(mask4, value4)

\* an arm that ors the code of the pipeline into the value and leaves the
\* mask of the inner macro as it is
FilterSeqArmNoPipelineMask(pipeline, mv) ==
    IF mv = FilterPanic THEN FilterPanic
    ELSE BitsMatch(mv.mask, BitOr(mv.value, PipelineEncode(pipeline)))

\* the arm of filter_seq! for a pipeline: the pair of the inner macro with
\* the mask and the code of the pipeline, a panic of the inner macro kept
FilterSeqArm(pipeline, mv) ==
    IF mv = FilterPanic THEN FilterPanic
    ELSE BitsMatch(BitOr(mv.mask, PipelineMask), BitOr(mv.value, PipelineEncode(pipeline)))

\* filter_seq!($pipeline, $supertype, $subtype, $src_id)
FilterSeq4(pipeline, supertype, subtype, src_id) ==
    CASE pipeline = "Emission" ->
            FilterSeqArm("Emission", FilterEmitSeq3(supertype, subtype, src_id))
      [] pipeline = "MCRT" ->
            FilterSeqArm("Mcrt", FilterMcrtSeq3(supertype, subtype, src_id))
      [] pipeline = "Detection" ->
            FilterSeqArm("Detection", FilterDetectSeq3(supertype, subtype, src_id))
      [] OTHER -> FilterPanic

\* filter_seq!($pipeline, $supertype, $subtype, $scatter, $dir, $src_id)
FilterSeq6(pipeline, supertype, subtype, scatter, dir, src_id) ==
    CASE pipeline = "Emission" ->
            FilterSeqArm("Emission", FilterEmitSeq5(supertype, subtype, scatter, dir, src_id))
      [] pipeline = "MCRT" ->
            FilterSeqArm("Mcrt", FilterMcrtSeq5(supertype, subtype, scatter, dir, src_id))
      [] pipeline = "Detection" ->
            FilterSeqArm("Detection", FilterDetectSeq5(supertype, subtype, scatter, dir, src_id))
      [] OTHER -> FilterPanic

\* the fragment $x:ident of the patterns: it takes a name, and the token
\* "_" is not one
IsIdent(tok) == tok # "_"

\* an invocation that no pattern of filter_seq! accepts: the crate that
\* holds it is not built and no step exists
FilterRejected == BitsMatch(-2, -2)

\* filter_seq! with the arguments a: the pattern is chosen by the number
\* of arguments, every argument before the SrcId is taken as $x:ident
FilterSeq(a) ==
    IF \E i \in 1..(Len(a) - 1) : ~IsIdent(a[i]) THEN FilterRejected
    ELSE CASE Len(a) = 2 -> FilterSeq2(a[1], a[2])
           [] Len(a) = 4 -> FilterSeq4(a[1], a[2], a[3], a[4])
           [] Len(a) = 6 -> FilterSeq6(a[1], a[2], a[3], a[4], a[5], a[6])

\* the arguments of the invocations: every pipeline, a type path of each
\* length, a SrcId of each kind
PipelineArgs == {"Emission", "MCRT", "Detection", "Processing"}
SrcIdArgs ==
    {SrcNone, SrcId("Mat", 1), SrcId("Surf", 2), SrcId("MatSurf", 65535), SrcId("Light", 4)}
FilterArgs ==
    {<<p, s>> : p \in PipelineArgs, s \in SrcIdArgs}
    \cup {<<p, t[1], t[2], s>> :
            p \in PipelineArgs,
            t \in {<<"Interface", "Refraction">>, <<"Reflector", "Diffuse">>,
                    <<"Material", "Absorption">>},
            s \in SrcIdArgs}
    \cup {<<p, "Material", t[1], t[2], d, s>> :
            p \in PipelineArgs,
            t \in {<<"Elastic", "Mie">>, <<"Inelastic", "Raman">>},
            d \in {"Any", "Forward"},
            s \in SrcIdArgs}

\* an invocation of filter_seq!
FilterBuild(a) ==
    /\ fargs' = a
    /\ built' = FilterSeq(a)
    /\ last' = Call("filter_seq", NoUid, 0, NoUid, FilterSeq(a) # FilterPanic)
    /\ UNCHANGED <<regVars, trieVars, workerVars, queryVars, codecVars, doc, profile,
                   uid_in, uid_key, uid_out, uid_text, uid_parsed>>

NextBuild == \E a \in FilterArgs : FilterBuild(a)

SpecBuild == Init /\ [][NextBuild]_vars

\* Filter steps against encoded events: a step is built from selectors, an
\* event is encoded, the mask test of the search is applied to the pair.
\* The selectors are the variant names of the raw layer; "_" is the wildcard.
Selectors3 ==
    {<<"Interface", k>> : k \in DOMAIN RawFields["Interface"].codes \cup {"_"}}
    \cup {<<"Reflector", k>> : k \in DOMAIN RawFields["Reflector"].codes \cup {"_"}}
    \cup {<<"Material", k>> : k \in {"Absorption", "_"}}

Selectors5 ==
    {<<"Material", "Elastic", k, d>> : k \in ElasticKinds \cup {"_"}, d \in ScatterDirs \cup {"_"}}
    \cup {<<"Material", "Inelastic", k, d>> :
            k \in InelasticKinds \cup {"_"}, d \in ScatterDirs \cup {"_"}}
    \cup {<<"Material", "_", "_", d>> : d \in ScatterDirs \cup {"_"}}

LayoutSrcIds == {SrcNone, SrcId("Mat", 1), SrcId("Surf", 2), SrcId("MatSurf", 65535)}

LayoutArgs ==
    {<<"MCRT">> \o t \o <<s>> : t \in Selectors3 \cup Selectors5, s \in LayoutSrcIds}
    \cup {<<"Emission", SrcNone>>, <<"Detection", SrcNone>>}

\* the events encoded: every taxonomy path with a numeric id
LayoutIds == {0, 1, 2, 65535}
LayoutEvents == {EventId(p, i) : p \in TaxonomyPaths, i \in LayoutIds}

\* an invocation of filter_seq!; the step is built once
LayoutBuild(a) ==
    /\ fargs = << >>
    /\ fargs' = a
    /\ built' = FilterSeq(a)
    /\ UNCHANGED <<regVars, trieVars, workerVars, last, queryVars, codecVars, doc, profile,
                   uid_in, uid_key, uid_out, uid_text, uid_parsed>>

\* EventId::encode of the event the step is then tested against
LayoutEncode(ev) ==
    /\ fargs # << >>
    /\ cin.event_type = << >>
    /\ cin' = ev
    /\ craw' = EventIdEncode(ev)
    /\ UNCHANGED <<regVars, trieVars, workerVars, last, queryVars, cout, doc, profile, pureVars>>

NextLayout ==
    \/ \E a \in LayoutArgs : LayoutBuild(a)
    \/ \E ev \in LayoutEvents : LayoutEncode(ev)

SpecLayout == Init /\ [][NextLayout]_vars

\* The predicates of the filters handed to the search: one satisfied by the
\* Emission event, one by the Refraction event, one by no inserted event
PredEmission == FilterSeq2("Emission", SrcNone)
PredRefraction == FilterSeq4Mcrt("Interface", "Refraction", SrcNone)
PredDiffuse == FilterSeq4Mcrt("Reflector", "Diffuse", SrcNone)
Preds == {PredEmission, PredRefraction, PredDiffuse}

Filters == UNION {[1..n -> Preds] : n \in 0..MaxFilterLen}

\* (next_uid.event & bits_match.mask) == bits_match.value
Matches(event, bits_match) == BitAnd(event, bits_match.mask) = bits_match.value

\* the events the ledger can hold, each tested once against each predicate
MatchTable ==
    [e \in {Encoded[x] : x \in DOMAIN Encoded} |-> [b \in Preds |-> Matches(e, b)]]

\* SeqQueueEntry
SeqQueueEntry(uid, bits_match_seq) == [uid |-> uid, bits_match_seq |-> bits_match_seq]

Tail1(q) == SubSeq(q, 2, Len(q))

\* an entry that tests each start event against the first predicate before
\* it is put on the queue
QueryStartTestsRoot(bits_match_seq) ==
    /\ qpc = "idle"
    /\ qfilter' = bits_match_seq
    /\ seq_queue' = [i \in 1..Len(start_events) |->
                        IF bits_match_seq # << >>
                           /\ MatchTable[start_events[i].event][Head(bits_match_seq)]
                        THEN SeqQueueEntry(start_events[i], Tail1(bits_match_seq))
                        ELSE SeqQueueEntry(start_events[i], bits_match_seq)]
    /\ found_uids' = << >>
    /\ qpc' = "run"
    /\ UNCHANGED <<regVars, trieVars, workerVars, last, codecVars, doc, profile, pureVars>>

\* find_forward_uid_seq, entry: the queue is filled with the start events,
\* each with the whole filter
QueryStart(bits_match_seq) ==
    /\ qpc = "idle"
    /\ qfilter' = bits_match_seq
    /\ seq_queue' = [i \in 1..Len(start_events) |->
                        SeqQueueEntry(start_events[i], bits_match_seq)]
    /\ found_uids' = << >>
    /\ qpc' = "run"
    /\ UNCHANGED <<regVars, trieVars, workerVars, last, codecVars, doc, profile, pureVars>>

\* the entries pushed for the children of the popped entry
Pushed(uid_seq, next_uids) ==
    [i \in 1..Len(next_uids) |->
        IF uid_seq.bits_match_seq = << >>
        THEN SeqQueueEntry(next_uids[i], uid_seq.bits_match_seq)
        ELSE LET bits_match == Head(uid_seq.bits_match_seq)
             IN  IF MatchTable[next_uids[i].event][bits_match]
                 THEN SeqQueueEntry(next_uids[i], Tail1(uid_seq.bits_match_seq))
                 ELSE SeqQueueEntry(next_uids[i], uid_seq.bits_match_seq)]

\* the search that walks no further once the filter is consumed
QueryStepStopsWhenConsumed ==
    /\ qpc = "run"
    /\ seq_queue # << >>
    /\ LET uid_seq == Head(seq_queue)
           next_uids == GetNext(next, uid_seq.uid)
       IN  IF next_uids = << >>
           THEN /\ found_uids' = IF uid_seq.bits_match_seq = << >>
                                 THEN Append(found_uids, uid_seq.uid) ELSE found_uids
                /\ seq_queue' = Tail1(seq_queue)
           ELSE /\ found_uids' = found_uids
                /\ seq_queue' = IF uid_seq.bits_match_seq = << >>
                                THEN Tail1(seq_queue)
                                ELSE Tail1(seq_queue) \o Pushed(uid_seq, next_uids)
    /\ UNCHANGED <<qpc, qfilter, regVars, trieVars, workerVars, last, codecVars, doc, profile, pureVars>>

\* the search that puts a terminal entry with an unconsumed filter back at
\* the end of the queue
QueryStepRequeues ==
    /\ qpc = "run"
    /\ seq_queue # << >>
    /\ LET uid_seq == Head(seq_queue)
           next_uids == GetNext(next, uid_seq.uid)
       IN  IF next_uids = << >>
           THEN /\ found_uids' = IF uid_seq.bits_match_seq = << >>
                                 THEN Append(found_uids, uid_seq.uid) ELSE found_uids
                /\ seq_queue' = IF uid_seq.bits_match_seq = << >>
                                THEN Tail1(seq_queue)
                                ELSE Append(Tail1(seq_queue), uid_seq)
           ELSE /\ found_uids' = found_uids
                /\ seq_queue' = Tail1(seq_queue) \o Pushed(uid_seq, next_uids)
    /\ UNCHANGED <<qpc, qfilter, regVars, trieVars, workerVars, last, codecVars, doc, profile, pureVars>>

\* find_forward_uid_seq, one turn of the while loop
QueryStep ==
    /\ qpc = "run"
    /\ seq_queue # << >>
    /\ LET uid_seq == Head(seq_queue)
           next_uids == GetNext(next, uid_seq.uid)
       IN  IF next_uids = << >>
           THEN /\ found_uids' = IF uid_seq.bits_match_seq = << >>
                                 THEN Append(found_uids, uid_seq.uid) ELSE found_uids
                /\ seq_queue' = Tail1(seq_queue)
           ELSE /\ found_uids' = found_uids
                /\ seq_queue' = Tail1(seq_queue) \o Pushed(uid_seq, next_uids)
    /\ UNCHANGED <<qpc, qfilter, regVars, trieVars, workerVars, last, codecVars, doc, profile, pureVars>>

\* find_forward_uid_seq, exit of the while loop: found_uids is returned
QueryDone ==
    /\ qpc = "run"
    /\ seq_queue = << >>
    /\ qpc' = "done"
    /\ UNCHANGED <<qfilter, seq_queue, found_uids, regVars, trieVars, workerVars, last, codecVars, doc, profile, pureVars>>

\* one worker fills the ledger, then a search runs on it
NextFilter ==
    \/ \E e \in Events : InsertStart("w1", e)
    \/ \E e \in Events : Insert("w1", cur["w1"], e)
    \/ \E f \in Filters : QueryStart(f)
    \/ QueryStep
    \/ QueryDone

SpecFilter == Init /\ [][NextFilter]_vars

\* the search is a sequential loop of a running program: a turn of the loop
\* that can be taken is taken, and the function returns when the loop ends
SpecFilterFair == SpecFilter /\ WF_vars(QueryStep) /\ WF_vars(QueryDone)

\* ------------------------------------------------------------------------
\* Source registry (ledger.rs: with_light, with_surf, with_mat, with_matsurf)
\* ------------------------------------------------------------------------
U16Max == 65535

\* x += 1 and x -= 1 on a u16: a debug build panics where the result leaves
\* the range, a release build wraps
Inc16(x) == (x + 1) % (U16Max + 1)
Dec16(x) == (x + U16Max) % (U16Max + 1)
IncPanics(x) == profile = "debug" /\ x = U16Max
DecPanics(x) == profile = "debug" /\ x = 0

MapRemove(m, k) == [x \in DOMAIN m \ {k} |-> m[x]]

\* SrcName: the kind tag and the text; the text of format!("{}:{}", obj, mat)
\* is the tuple <<obj, ":", mat>>, any other text a one-element tuple
SrcName(kind, text) == [kind |-> kind, text |-> text]

\* the registry fields of the ledger as one value
Registry ==
    [grps |-> grps, src_map |-> src_map, next_mat_id |-> next_mat_id,
     next_surf_id |-> next_surf_id, next_matsurf_id |-> next_matsurf_id,
     next_light_id |-> next_light_id]

\* the outcome of a registry call: the fields it leaves, the SrcId it
\* returns, whether it returned (TRUE) or panicked (FALSE), and the
\* warnings it logged about the id ranges
Outcome(R, ret, ok) == [R |-> R, ret |-> ret, ok |-> ok, warned |-> {}]

\* the conditions of check_ids: the ranges that have met the MatSurf range
Crossings(R) ==
    (IF R.next_mat_id >= R.next_matsurf_id THEN {"Mat"} ELSE {})
    \cup (IF R.next_surf_id >= R.next_matsurf_id THEN {"Surf"} ELSE {})

\* a check_ids that refuses the registration when ranges have met
CheckIdsRejects(o) ==
    IF o.ok /\ Crossings(o.R) # {} THEN [o EXCEPT !.ok = FALSE, !.ret = SrcNone] ELSE o

\* Ledger::check_ids at the end of a call that got this far: a warning for
\* each range that has met the MatSurf range, nothing else
CheckIds(o) == IF o.ok THEN [o EXCEPT !.warned = Crossings(o.R)] ELSE o

\* a push that puts the name in front of the names already registered
PushNameFront(src_map_, id, name) ==
    IF id \in DOMAIN src_map_
    THEN [src_map_ EXCEPT ![id] = <<name>> \o @]
    ELSE MapPut(src_map_, id, <<name>>)

\* match self.src_map.get_mut(&id) { Some(v) => v.push(name), None => insert(id, vec![name]) }
PushName(src_map_, id, name) ==
    IF id \in DOMAIN src_map_
    THEN [src_map_ EXCEPT ![id] = Append(@, name)]
    ELSE MapPut(src_map_, id, <<name>>)

\* Ledger::with_light
WithLightCalc(R, light_name) ==
    LET light_id == SrcId("Light", R.next_light_id)
        R1 == [R EXCEPT !.next_light_id = Inc16(@)]
    IN  IF IncPanics(R.next_light_id) THEN Outcome(R, SrcNone, FALSE)
        ELSE IF light_id \in DOMAIN R1.src_map
        THEN Outcome(R1, SrcNone, FALSE)
        ELSE Outcome([R1 EXCEPT !.src_map = MapPut(@, light_id, <<SrcName("Light", <<light_name>>)>>)],
                     light_id, TRUE)

\* Ledger::with_mat
WithMatCalc(R, mat_name) ==
    LET mat_id == SrcId("Mat", R.next_mat_id)
        R1 == [R EXCEPT !.next_mat_id = Inc16(@)]
    IN  IF IncPanics(R.next_mat_id) THEN Outcome(R, SrcNone, FALSE)
        ELSE Outcome([R1 EXCEPT !.src_map = PushName(@, mat_id, SrcName("Mat", <<mat_name>>))],
                mat_id, TRUE)

\* a group part that allocates a Surf id for every call, known group or not
WithSurfGroupAlwaysAllocates(R, grp_name) ==
    Outcome([R EXCEPT !.next_surf_id = Inc16(@),
                      !.grps = MapPut(@, grp_name, SrcId("Surf", R.next_surf_id))],
            SrcId("Surf", R.next_surf_id), TRUE)

\* a group part that binds a new group to an id of the Mat range
WithSurfGroupBindsMat(R, grp_name) ==
    IF grp_name \in DOMAIN R.grps THEN Outcome(R, R.grps[grp_name], TRUE)
    ELSE Outcome([R EXCEPT !.next_mat_id = Inc16(@),
                           !.grps = MapPut(@, grp_name, SrcId("Mat", R.next_mat_id))],
                 SrcId("Mat", R.next_mat_id), TRUE)

\* Ledger::with_surf, the group part: the SrcId of the group
WithSurfGroup(R, grp_name) ==
    LET known == grp_name \in DOMAIN R.grps
        src_id == IF known THEN R.grps[grp_name] ELSE SrcId("Surf", R.next_surf_id)
        R1 == IF known THEN R
              ELSE [R EXCEPT !.next_surf_id = Inc16(@),
                             !.grps = MapPut(@, grp_name, src_id)]
    IN  CASE ~known /\ IncPanics(R.next_surf_id) -> Outcome(R, SrcNone, FALSE)
          [] src_id.kind \in {"Surf", "MatSurf"} -> Outcome(R1, src_id, TRUE)
          [] src_id.kind = "Mat" ->
                LET matsurf_id == R1.next_matsurf_id
                    R2 == [R1 EXCEPT !.next_matsurf_id = Dec16(@)]
                IN  IF DecPanics(R1.next_matsurf_id) THEN Outcome(R1, SrcNone, FALSE)
                    ELSE IF src_id \in DOMAIN R2.src_map
                    THEN Outcome([R2 EXCEPT !.src_map =
                                     MapPut(MapRemove(@, src_id), SrcId("Mat", matsurf_id),
                                            R2.src_map[src_id])],
                                 SrcId("MatSurf", matsurf_id), TRUE)
                    ELSE Outcome(R2, SrcNone, FALSE)
          [] OTHER -> Outcome(R1, SrcNone, FALSE)

\* Ledger::with_surf
WithSurfCalc(R, obj_name, grp) ==
    LET g == IF grp # NoGroup THEN WithSurfGroup(R, grp)
             ELSE IF IncPanics(R.next_surf_id) THEN Outcome(R, SrcNone, FALSE)
             ELSE Outcome([R EXCEPT !.next_surf_id = Inc16(@)],
                          SrcId("Surf", R.next_surf_id), TRUE)
    IN  IF ~g.ok THEN g
        ELSE Outcome([g.R EXCEPT !.src_map = PushName(@, g.ret, SrcName("Surf", <<obj_name>>))],
                     g.ret, TRUE)

\* a group part that promotes a group of any kind but MatSurf, a Light
\* group too
WithMatsurfGroupPromotesLight(R, grp_name) ==
    LET known == grp_name \in DOMAIN R.grps
        src_id == IF known THEN R.grps[grp_name] ELSE SrcId("MatSurf", R.next_matsurf_id)
        R1 == IF known THEN R
              ELSE [R EXCEPT !.next_matsurf_id = Dec16(@),
                             !.grps = MapPut(@, grp_name, src_id)]
    IN  IF src_id.kind = "MatSurf" THEN Outcome(R1, src_id, TRUE)
        ELSE Outcome([R1 EXCEPT !.next_matsurf_id = Dec16(@),
                                !.src_map = MapRemove(@, src_id)],
                     SrcId("MatSurf", R1.next_matsurf_id), TRUE)

\* Ledger::with_matsurf, the group part: the SrcId of the group
WithMatsurfGroup(R, grp_name) ==
    LET known == grp_name \in DOMAIN R.grps
        src_id == IF known THEN R.grps[grp_name] ELSE SrcId("MatSurf", R.next_matsurf_id)
        R1 == IF known THEN R
              ELSE [R EXCEPT !.next_matsurf_id = Dec16(@),
                             !.grps = MapPut(@, grp_name, src_id)]
    IN  CASE ~known /\ DecPanics(R.next_matsurf_id) -> Outcome(R, SrcNone, FALSE)
          [] src_id.kind = "MatSurf" -> Outcome(R1, src_id, TRUE)
          [] src_id.kind \in {"Surf", "Mat"} ->
                LET matsurf_id == R1.next_matsurf_id
                    R2 == [R1 EXCEPT !.next_matsurf_id = Dec16(@)]
                IN  IF DecPanics(R1.next_matsurf_id) THEN Outcome(R1, SrcNone, FALSE)
                    ELSE IF src_id \in DOMAIN R2.src_map
                    THEN Outcome([R2 EXCEPT !.src_map =
                                     MapPut(MapRemove(@, src_id),
                                            SrcId(src_id.kind, matsurf_id),
                                            R2.src_map[src_id])],
                                 SrcId("MatSurf", matsurf_id), TRUE)
                    ELSE Outcome(R2, SrcNone, FALSE)
          [] OTHER -> Outcome(R1, SrcNone, FALSE)

\* Ledger::with_matsurf
WithMatsurfCalc(R, obj_name, mat_name, grp) ==
    LET g == IF grp # NoGroup THEN WithMatsurfGroup(R, grp)
             ELSE IF DecPanics(R.next_matsurf_id) THEN Outcome(R, SrcNone, FALSE)
             ELSE Outcome([R EXCEPT !.next_matsurf_id = Dec16(@)],
                          SrcId("MatSurf", R.next_matsurf_id), TRUE)
        matsurf_name == <<obj_name, ":", mat_name>>
    IN  IF ~g.ok THEN g
        ELSE Outcome([g.R EXCEPT !.src_map = PushName(@, g.ret, SrcName("MatSurf", matsurf_name))],
                     g.ret, TRUE)

\* a registry call that also takes a seq_id from the trie's allocator
RegisteredTakesSeqId(op, grp, name, o) ==
    /\ regs < MaxRegs
    /\ regs' = regs + 1
    /\ first_ret' = IF o.ok /\ grp # NoGroup /\ <<op, grp>> \notin DOMAIN first_ret
                    THEN MapPut(first_ret, <<op, grp>>, o.ret)
                    ELSE first_ret
    /\ grps' = o.R.grps
    /\ src_map' = o.R.src_map
    /\ next_mat_id' = o.R.next_mat_id
    /\ next_surf_id' = o.R.next_surf_id
    /\ next_matsurf_id' = o.R.next_matsurf_id
    /\ next_light_id' = o.R.next_light_id
    /\ next_seq_id' = next_seq_id + 1
    /\ last' = [RegCall(op, grp, name, o.ret, o.ok) EXCEPT !.warned = o.warned]
    /\ UNCHANGED <<start_events, next, prev, workerVars, queryVars, codecVars, doc, profile,
                   pureVars>>

\* a registry call with outcome o has run
Registered(op, grp, name, o) ==
    /\ regs < MaxRegs
    /\ regs' = regs + 1
    /\ first_ret' = IF o.ok /\ grp # NoGroup /\ <<op, grp>> \notin DOMAIN first_ret
                    THEN MapPut(first_ret, <<op, grp>>, o.ret)
                    ELSE first_ret
    /\ grps' = o.R.grps
    /\ src_map' = o.R.src_map
    /\ next_mat_id' = o.R.next_mat_id
    /\ next_surf_id' = o.R.next_surf_id
    /\ next_matsurf_id' = o.R.next_matsurf_id
    /\ next_light_id' = o.R.next_light_id
    /\ last' = [RegCall(op, grp, name, o.ret, o.ok) EXCEPT !.warned = o.warned]
    /\ UNCHANGED <<trieVars, workerVars, queryVars, codecVars, doc, profile, pureVars>>

WithLight(light_name) ==
    Registered("with_light", NoGroup, SrcName("Light", <<light_name>>),
               WithLightCalc(Registry, light_name))

WithMat(mat_name) ==
    Registered("with_mat", NoGroup, SrcName("Mat", <<mat_name>>),
               CheckIds(WithMatCalc(Registry, mat_name)))

WithSurf(obj_name, grp) ==
    Registered("with_surf", grp, SrcName("Surf", <<obj_name>>),
               CheckIds(WithSurfCalc(Registry, obj_name, grp)))

WithMatsurf(obj_name, mat_name, grp) ==
    Registered("with_matsurf", grp, SrcName("MatSurf", <<obj_name, ":", mat_name>>),
               CheckIds(WithMatsurfCalc(Registry, obj_name, mat_name, grp)))

\* the names and groups of the scene
LightNames == {"l1"}
MatNames == {"m1"}
ObjNames == {"s1", "s2"}
GroupArgs == {NoGroup, "g", "h"}

NextRegistry ==
    \/ \E n \in LightNames : WithLight(n)
    \/ \E n \in MatNames : WithMat(n)
    \/ \E n \in ObjNames, g \in GroupArgs : WithSurf(n, g)
    \/ \E n \in ObjNames, m \in MatNames, g \in GroupArgs : WithMatsurf(n, m, g)

SpecRegistry == Init /\ [][NextRegistry]_vars

\* ------------------------------------------------------------------------
\* A run that sets up the scene, records events, reads the ledger and
\* searches it
\* ------------------------------------------------------------------------
\* Ledger::get_next(&self, uid): the first of the Uids it returns
GetNextCall(uid) ==
    /\ qpc = "idle"
    /\ last' = Call("get_next", uid, 0,
                    IF GetNext(next, uid) = << >> THEN NoUid ELSE Head(GetNext(next, uid)),
                    TRUE)
    /\ UNCHANGED <<regVars, trieVars, workerVars, queryVars, codecVars, doc, profile, pureVars>>

\* Ledger::get_prev(&self, seq_id)
GetPrevCall(uid) ==
    /\ qpc = "idle"
    /\ last' = Call("get_prev", uid, 0, GetPrev(prev, uid.seq_id), TRUE)
    /\ UNCHANGED <<regVars, trieVars, workerVars, queryVars, codecVars, doc, profile, pureVars>>

\* Ledger::get_chain(&self, last_uid): the first of the Uids it returns
GetChainCall(uid) ==
    /\ qpc = "idle"
    /\ last' = Call("get_chain", uid, 0, Head(GetChain(prev, uid)), TRUE)
    /\ UNCHANGED <<regVars, trieVars, workerVars, queryVars, codecVars, doc, profile, pureVars>>

\* the number of sources the run registers
MaxFrameRegs == 2

\* the search borrows the ledger, so no call that changes it runs before
\* the search has returned
NextFrame ==
    \/ \E n \in LightNames : qpc = "idle" /\ regs < MaxFrameRegs /\ WithLight(n)
    \/ \E n \in MatNames : qpc = "idle" /\ regs < MaxFrameRegs /\ WithMat(n)
    \/ qpc = "idle" /\ regs < MaxFrameRegs /\ WithSurf("s1", "g")
    \/ qpc = "idle" /\ regs < MaxFrameRegs /\ WithMatsurf("s1", "m1", "g")
    \/ InsertStart("w1", EvEmit)
    \/ \E e \in Events : Insert("w1", cur["w1"], e)
    \/ cur["w1"] # NoUid /\ GetNextCall(cur["w1"])
    \/ cur["w1"] # NoUid /\ GetPrevCall(cur["w1"])
    \/ cur["w1"] # NoUid /\ GetChainCall(cur["w1"])
    \/ \E f \in {<< >>, <<PredRefraction>>} : QueryStart(f)
    \/ QueryStep
    \/ QueryDone

SpecFrame == Init /\ [][NextFrame]_vars

\* ------------------------------------------------------------------------
\* Text forms (ledger.rs: Display / FromStr for Uid, FromStr for SrcId;
\* mcrt.rs: Display for SrcId).  A text is a sequence of characters.
\* ------------------------------------------------------------------------
\* the result of a parse that returns Err
ParseErr == -1

\* the result of a parse that panics
ParsePanic == -2

\* u32 ends at 4294967295; the integers of the model checker end at
\* 2147483647 and every u32 of the model stays below that value
U32Top == 2147483647

UpperHex == <<"0", "1", "2", "3", "4", "5", "6", "7", "8", "9", "A", "B", "C", "D", "E", "F">>
LowerHex == <<"0", "1", "2", "3", "4", "5", "6", "7", "8", "9", "a", "b", "c", "d", "e", "f">>

\* char::to_digit(radix): the value of the digit, ParseErr for any other character
ToDigit(c, radix) ==
    IF \E i \in 1..radix : UpperHex[i] = c \/ LowerHex[i] = c
    THEN (CHOOSE i \in 1..radix : UpperHex[i] = c \/ LowerHex[i] = c) - 1
    ELSE ParseErr

RECURSIVE DigitsValue(_, _, _, _)
\* the digit loop of from_str_radix: InvalidDigit and PosOverflow are Err
DigitsValue(ds, acc, radix, max) ==
    IF ds = << >> THEN acc
    ELSE LET d == ToDigit(Head(ds), radix)
         IN  IF d = ParseErr THEN ParseErr
             ELSE IF acc > (max - d) \div radix THEN ParseErr
             ELSE DigitsValue(Tail(ds), acc * radix + d, radix, max)

\* {u16,u32}::from_str_radix: an empty text and a lone sign are Err, a
\* leading "+" is skipped, a leading "-" is an invalid digit
FromStrRadix(src, radix, max) ==
    IF src = << >> THEN ParseErr
    ELSE IF Len(src) = 1 /\ src[1] \in {"+", "-"} THEN ParseErr
    ELSE DigitsValue(IF src[1] = "+" THEN Tail(src) ELSE src, 0, radix, max)

RECURSIVE DecStr(_)
\* Display of an unsigned integer ("{}")
DecStr(n) ==
    IF n < 10 THEN <<UpperHex[n + 1]>>
    ELSE DecStr(n \div 10) \o <<UpperHex[(n % 10) + 1]>>

\* "{:08X}" of a u32
Hex08(n) == [i \in 1..8 |-> UpperHex[((n \div Pow2(4 * (8 - i))) % 16) + 1]]

\* a part of a text: s[from..to) with 0-based bounds, as a Rust slice
Slice(s, from, to) == [i \in 1..(to - from) |-> s[from + i]]

\* the characters of a string literal of the source
Chars(lit) ==
    CASE lit = "0x" -> <<"0", "x">>
      [] lit = "None" -> <<"N", "o", "n", "e">>
      [] lit = "Mat" -> <<"M", "a", "t">>
      [] lit = "Surf" -> <<"S", "u", "r", "f">>
      [] lit = "MatSurf" -> <<"M", "a", "t", "S", "u", "r", "f">>
      [] lit = "Light" -> <<"L", "i", "g", "h", "t">>

StartsWith(s, pre) == Len(s) >= Len(pre) /\ Slice(s, 0, Len(pre)) = pre

RECURSIVE TrimStartMatches(_, _)
\* str::trim_start_matches(pat): every repetition of pat at the start goes
TrimStartMatches(s, pat) ==
    IF StartsWith(s, pat) THEN TrimStartMatches(Slice(s, Len(pat), Len(s)), pat) ELSE s

\* Display for Uid: "0x{:08X}_{:08X}"
UidDisplay(uid) == Chars("0x") \o Hex08(uid.seq_id) \o <<"_">> \o Hex08(uid.event)

\* the results of FromStr for Uid that are no Uid: Err(..), and the panic
\* of the assert_eq!
UidErr == [seq_id |-> ParseErr, event |-> 0]
UidPanic == [seq_id |-> ParsePanic, event |-> 0]

\* FromStr for Uid
UidFromStr(text) ==
    LET s == TrimStartMatches(text, Chars("0x"))
    IN  IF Len(s) # 17 THEN UidErr
        ELSE LET seq_id == FromStrRadix(Slice(s, 0, 8), 16, U32Top)
                 event == FromStrRadix(Slice(s, 9, 17), 16, U32Top)
             IN  IF seq_id = ParseErr THEN UidErr
                 ELSE IF s[9] # "_" THEN UidPanic
                 ELSE IF event = ParseErr THEN UidErr
                 ELSE Uid(seq_id, event)

\* Display for SrcId
SrcIdDisplay(id) ==
    IF id.kind = "None" THEN Chars("None")
    ELSE Chars(id.kind) \o <<"(">> \o DecStr(id.id) \o <<")">>

\* str::trim: the spaces at both ends go
TrimStart(s) == Slice(s, Cardinality({i \in 1..Len(s) : \A j \in 1..i : s[j] = " "}), Len(s))
TrimEnd(s) == Slice(s, 0, Len(s) - Cardinality({i \in 1..Len(s) : \A j \in i..Len(s) : s[j] = " "}))
Trim(s) == TrimEnd(TrimStart(s))

\* the result of FromStr for SrcId that is Err(..)
SrcIdErr == [kind |-> "Err", id |-> 0]

\* FromStr for SrcId
SrcIdFromStr(text) ==
    LET s == Trim(text)
        opens == {i \in 1..Len(s) : s[i] = "("}
    IN  IF s = Chars("None") THEN SrcNone
        ELSE IF Cardinality(opens) # 1 \/ s[Len(s)] # ")" THEN SrcIdErr
        ELSE LET at == CHOOSE i \in opens : TRUE
                 id_type == Slice(s, 0, at - 1)
                 id_value == FromStrRadix(Slice(s, at, Len(s) - 1), 10, U16Max)
             IN  IF id_value = ParseErr THEN SrcIdErr
                 ELSE IF \E k \in {"Mat", "Surf", "MatSurf", "Light"} : id_type = Chars(k)
                 THEN SrcId(CHOOSE k \in {"Mat", "Surf", "MatSurf", "Light"} : id_type = Chars(k),
                            id_value)
                 ELSE SrcIdErr

\* the text that Display gives the Uid of the Emission root at position 10,
\* without its "0x": 0000000A_01000001
UidBody == Slice(UidDisplay(Uid(10, Encoded[EvEmit])), 2, 19)

\* characters put in the place of one character of a text: signs, a letter
\* that is no hex digit, the separator, a digit, a lower-case hex digit
OddChars == {"+", "-", "g", "_", "7", "b"}

\* the texts handed to from_str: the body with one character replaced, as it
\* is, after "0x" and after "0x0x"; the body one character short and one
\* character long; the empty text
UidPrefixes == {<< >>, Chars("0x"), Chars("0x") \o Chars("0x")}

UidTexts ==
    {pre \o [UidBody EXCEPT ![i] = c] :
        pre \in UidPrefixes, i \in 1..Len(UidBody), c \in OddChars}
    \cup {pre \o UidBody : pre \in UidPrefixes}
    \cup {Slice(UidBody, 0, 16), UidBody \o <<"0">>, << >>}

\* text.parse::<Uid>()
UidParse(text) ==
    /\ uid_text' = text
    /\ uid_parsed' = UidFromStr(text)
    /\ last' = Call("Uid::from_str", NoUid, 0, NoUid, UidFromStr(text) # UidPanic)
    /\ UNCHANGED <<regVars, trieVars, workerVars, queryVars, codecVars, doc, profile,
                   uid_in, uid_key, uid_out, fargs, built>>

NextText == \E t \in UidTexts : UidParse(t)

SpecText == Init /\ [][NextText]_vars

\* ------------------------------------------------------------------------
\* The 64-bit key of a Uid (ledger.rs: Uid::encode, Uid::decode).  A u32 is
\* the pair <<high, low>> of its 16-bit halves, a u64 the tuple of its four
\* 16-bit parts, the most significant first.
\* ------------------------------------------------------------------------
\* x as u64
AsU64(w) == <<0, 0, w[1], w[2]>>

\* x as u32: the high 32 bits are cut off
AsU32(x) == <<x[3], x[4]>>

\* x << n and x >> n on a u64, n a multiple of 16
Shl64(x, n) == [i \in 1..4 |-> IF i + (n \div 16) <= 4 THEN x[i + (n \div 16)] ELSE 0]
Shr64(x, n) == [i \in 1..4 |-> IF i - (n \div 16) >= 1 THEN x[i - (n \div 16)] ELSE 0]

\* x | y and x & y on a u64
Or64(x, y) == [i \in 1..4 |-> BitOr(x[i], y[i])]
And64(x, y) == [i \in 1..4 |-> BitAnd(x[i], y[i])]

\* 0xFFFFFFFF as a u64
LowMask64 == <<0, 0, 65535, 65535>>

\* an encode that shifts the seq_id by 16 bits only
UidEncodeShift16(uid) == Or64(Shl64(AsU64(uid.seq_id), 16), AsU64(uid.event))

\* Uid::encode: ((self.seq_id as u64) << 32) | (self.event.raw() as u64)
UidEncode(uid) == Or64(Shl64(AsU64(uid.seq_id), 32), AsU64(uid.event))

\* Uid::decode
UidDecode(encoded) ==
    [seq_id |-> AsU32(Shr64(encoded, 32)), event |-> AsU32(And64(encoded, LowMask64))]

\* the u32 values handed to Uid::encode: both halves empty, mixed, full
KeyWords == {<<h, l>> : h \in {0, 1, 65535}, l \in {0, 2, 65535}}

KeyEncode(u) ==
    /\ uid_in' = u
    /\ uid_key' = UidEncode(u)
    /\ uid_out' = NoKeyUid
    /\ last' = Call("Uid::encode", NoUid, 0, NoUid, TRUE)
    /\ UNCHANGED <<regVars, trieVars, workerVars, queryVars, codecVars, doc, profile,
                   uid_text, uid_parsed, fargs, built>>

KeyDecode ==
    /\ last.op = "Uid::encode"
    /\ uid_out' = UidDecode(uid_key)
    /\ last' = Call("Uid::decode", NoUid, 0, NoUid, TRUE)
    /\ UNCHANGED <<regVars, trieVars, workerVars, queryVars, codecVars, doc, profile,
                   uid_in, uid_key, uid_text, uid_parsed, fargs, built>>

NextKey ==
    \/ \E s \in KeyWords, e \in KeyWords : KeyEncode([seq_id |-> s, event |-> e])
    \/ KeyDecode

SpecKey == Init /\ [][NextKey]_vars

\* ------------------------------------------------------------------------
\* Persistence (ledger.rs: the serde attributes of Ledger, HexInnerMap,
\* write_ledger_to_json; bin/filter_target.rs: main reads the document)
\* ------------------------------------------------------------------------
\* the fields of the ledger as one value
LedgerValue ==
    [grps |-> grps, src_map |-> src_map, start_events |-> start_events,
     next_mat_id |-> next_mat_id, next_surf_id |-> next_surf_id,
     next_matsurf_id |-> next_matsurf_id, next_light_id |-> next_light_id,
     next |-> next, prev |-> prev, next_seq_id |-> next_seq_id]

\* a map written with every key k as the text F(k)
MapKeys(m, F(_)) ==
    [t \in {F(k) : k \in DOMAIN m} |-> m[CHOOSE k \in DOMAIN m : F(k) = t]]

\* a serializer that writes the low 16 bits of every key only ("{:04X}")
HexInnerMapSerializeLow16(value) ==
    MapKeys(value, LAMBDA n : [i \in 1..4 |-> UpperHex[((n \div Pow2(4 * (4 - i))) % 16) + 1]])

\* SerializeAs for HexInnerMap: the keys of an inner map of next as "{:08X}"
HexInnerMapSerialize(value) == MapKeys(value, Hex08)

\* Serialize for Ledger: src_map keyed by Display of SrcId, next keyed by
\* Display of u32 with HexInnerMap values, prev keyed by the decimal text
\* that the JSON writer gives an integer key
Serialize(L) ==
    [grps |-> L.grps,
     src_map |-> MapKeys(L.src_map, SrcIdDisplay),
     start_events |-> L.start_events,
     next_mat_id |-> L.next_mat_id, next_surf_id |-> L.next_surf_id,
     next_matsurf_id |-> L.next_matsurf_id, next_light_id |-> L.next_light_id,
     next |-> [t \in {DecStr(k) : k \in DOMAIN L.next} |->
                 HexInnerMapSerialize(L.next[CHOOSE k \in DOMAIN L.next : DecStr(k) = t])],
     prev |-> MapKeys(L.prev, DecStr),
     next_seq_id |-> L.next_seq_id]

\* the result of a deserialization that returns Err
DecodeErr == [next_seq_id |-> ParseErr]

ParseHex(t) == FromStrRadix(t, 16, U32Top)
ParseDec(t) == FromStrRadix(t, 10, U32Top)

\* DeserializeAs for HexInnerMap: u32::from_str_radix(&k, 16) of every key
HexInnerMapDeserialize(value) == MapKeys(value, ParseHex)

\* Deserialize for Ledger: every key is parsed back, one key that does not
\* parse fails the whole document
Deserialize(d) ==
    IF \/ \E t \in DOMAIN d.src_map : SrcIdFromStr(t) = SrcIdErr
       \/ \E t \in DOMAIN d.next : ParseDec(t) = ParseErr
       \/ \E t \in DOMAIN d.next : \E h \in DOMAIN d.next[t] : ParseHex(h) = ParseErr
       \/ \E t \in DOMAIN d.prev : ParseDec(t) = ParseErr
    THEN DecodeErr
    ELSE [grps |-> d.grps,
          src_map |-> MapKeys(d.src_map, SrcIdFromStr),
          start_events |-> d.start_events,
          next_mat_id |-> d.next_mat_id, next_surf_id |-> d.next_surf_id,
          next_matsurf_id |-> d.next_matsurf_id, next_light_id |-> d.next_light_id,
          next |-> [k \in {ParseDec(t) : t \in DOMAIN d.next} |->
                      HexInnerMapDeserialize(d.next[CHOOSE t \in DOMAIN d.next : ParseDec(t) = k])],
          prev |-> MapKeys(d.prev, ParseDec),
          next_seq_id |-> d.next_seq_id]

\* write_ledger_to_json: the run is over, its ledger is written once
Persist ==
    /\ doc = NoDoc
    /\ qpc = "idle"
    /\ doc' = Serialize(LedgerValue)
    /\ last' = Call("write_ledger_to_json", NoUid, 0, NoUid, TRUE)
    /\ UNCHANGED <<regVars, trieVars, workerVars, queryVars, codecVars, profile, pureVars>>

\* the ledger L replaces the fields; the process that holds it is a new
\* one: no worker holds a Uid, no call has been made on it
Installed(L) ==
    /\ grps' = L.grps
    /\ src_map' = L.src_map
    /\ start_events' = L.start_events
    /\ next_mat_id' = L.next_mat_id
    /\ next_surf_id' = L.next_surf_id
    /\ next_matsurf_id' = L.next_matsurf_id
    /\ next_light_id' = L.next_light_id
    /\ next' = L.next
    /\ prev' = L.prev
    /\ next_seq_id' = L.next_seq_id
    /\ cur' = [w \in Workers |-> NoUid]
    /\ chain' = [w \in Workers |-> << >>]
    /\ calls' = EmptyMap
    /\ first_ret' = EmptyMap

\* main of filter_target: serde_json::from_str of the document
Restore ==
    /\ doc # NoDoc
    /\ last.op = "write_ledger_to_json"
    /\ \E L \in {Deserialize(doc)} : L # DecodeErr /\ Installed(L)
    /\ last' = Call("from_str", NoUid, 0, NoUid, TRUE)
    /\ UNCHANGED <<regs, queryVars, codecVars, doc, profile, pureVars>>

\* the scene is set up: a light and a grouped surface are registered
SceneSet == next_light_id > 0 /\ DOMAIN grps # {}

\* a run registers its sources, then inserts its events, then writes the
\* ledger; a later process reads it and goes on inserting
NextPersist ==
    \/ \E n \in LightNames : next_light_id = 0 /\ WithLight(n)
    \/ \E n \in ObjNames : next_light_id > 0 /\ next = EmptyMap /\ WithSurf(n, "g")
    \/ \E e \in Events :
          SceneSet /\ last.op # "write_ledger_to_json" /\ InsertStart("w1", e)
    \/ \E e \in Events :
          /\ SceneSet
          /\ last.op # "write_ledger_to_json"
          /\ cur["w1"] # NoUid
          /\ InsertOk("w1", cur["w1"], e)
    \/ Persist
    \/ Restore

SpecPersist == Init /\ [][NextPersist]_vars

\* ------------------------------------------------------------------------
\* A process that starts from a stored ledger (bin/filter_target.rs: main)
\* and registers sources on it
\* ------------------------------------------------------------------------
\* a ledger without events, with the registry fields of R
RegistryLedger(R) ==
    [grps |-> R.grps, src_map |-> R.src_map, start_events |-> << >>,
     next_mat_id |-> R.next_mat_id, next_surf_id |-> R.next_surf_id,
     next_matsurf_id |-> R.next_matsurf_id, next_light_id |-> R.next_light_id,
     next |-> EmptyMap, prev |-> EmptyMap, next_seq_id |-> 0]

\* the registry of Ledger::new
NewRegistry ==
    [grps |-> EmptyMap, src_map |-> EmptyMap, next_mat_id |-> 0, next_surf_id |-> 0,
     next_matsurf_id |-> U16Max, next_light_id |-> 0]

\* the ledgers that documents hold: written by runs that left one counter
\* one step before the end of its range, and one whose group table binds
\* a group to a Light id (the document is read without validation)
StoredLedgers ==
    {RegistryLedger([NewRegistry EXCEPT
        !.next_mat_id = U16Max - 1,
        !.src_map = MapPut(EmptyMap, SrcId("Mat", 0), <<SrcName("Mat", <<"m0">>)>>)]),
     RegistryLedger([NewRegistry EXCEPT
        !.next_surf_id = U16Max - 1,
        !.src_map = MapPut(EmptyMap, SrcId("Surf", 0), <<SrcName("Surf", <<"s0">>)>>)]),
     RegistryLedger([NewRegistry EXCEPT
        !.next_light_id = U16Max - 1,
        !.src_map = MapPut(EmptyMap, SrcId("Light", 0), <<SrcName("Light", <<"l0">>)>>)]),
     RegistryLedger([NewRegistry EXCEPT
        !.next_matsurf_id = 1,
        !.src_map = MapPut(EmptyMap, SrcId("MatSurf", U16Max),
                           <<SrcName("MatSurf", <<"s0", ":", "m0">>)>>)]),
     RegistryLedger([NewRegistry EXCEPT
        !.next_light_id = 1,
        !.grps = MapPut(EmptyMap, "g", SrcId("Light", 0)),
        !.src_map = MapPut(EmptyMap, SrcId("Light", 0), <<SrcName("Light", <<"l0">>)>>)])}

\* main: the process, a debug or a release build, reads the ledger L
Load(L, build) ==
    /\ last = NoCall
    /\ Installed(L)
    /\ profile' = build
    /\ last' = Call("from_str", NoUid, 0, NoUid, TRUE)
    /\ UNCHANGED <<regs, queryVars, codecVars, doc, pureVars>>

NextCapacity ==
    \/ \E L \in StoredLedgers, build \in {"debug", "release"} : Load(L, build)
    \/ \E n \in LightNames : last # NoCall /\ WithLight(n)
    \/ \E n \in MatNames : last # NoCall /\ WithMat(n)
    \/ \E g \in {NoGroup, "g"} : last # NoCall /\ WithSurf("s1", g)
    \/ \E g \in {NoGroup, "g"} : last # NoCall /\ WithMatsurf("s1", "m1", g)

SpecCapacity == Init /\ [][NextCapacity]_vars

\* ------------------------------------------------------------------------
\* Codec round trip: an EventId is encoded, the word is decoded
\* ------------------------------------------------------------------------
CodecSrcIds == {0, 1, 255, 256, 65535}

NoEvent == EventId(<< >>, 0)

CodecEncode(ev) ==
    /\ cin' = ev
    /\ craw' = EventIdEncode(ev)
    /\ cout' = NoEvent
    /\ UNCHANGED <<regVars, trieVars, workerVars, last, queryVars, doc, profile, pureVars>>

CodecDecode ==
    /\ cin # NoEvent
    /\ cout = NoEvent
    /\ cout' = EventIdDecode(craw)
    /\ UNCHANGED <<cin, craw, regVars, trieVars, workerVars, last, queryVars, doc, profile, pureVars>>

NextCodec ==
    \/ \E p \in TaxonomyPaths, id \in CodecSrcIds : CodecEncode(EventId(p, id))
    \/ CodecDecode

SpecCodec == Init /\ [][NextCodec]_vars

\* ------------------------------------------------------------------------
\* Decoding of words that no encode produced
\* ------------------------------------------------------------------------
\* the words handed to decode: every pipeline code class (free, Emission,
\* Mcrt, Detection, Processing, free), every MCRT super type code, sub-type
\* codes inside and outside the enumerations
DecodeWords ==
    {p * Pow2(PipelineShift) + m * Pow2(22) + t * Pow2(16) :
        p \in {0, 1, 3, 5, 7, 15}, m \in 0..3, t \in {0, 1, 2, 3, 4, 9}}

\* the decode returns: no part of the path it gives is a panic
DecodeReturns(ev) == \A i \in 1..Len(ev.event_type) : ev.event_type[i] # Invalid

\* EventId::decode(raw) of a word from anywhere
DecodeWord(raw) ==
    /\ craw' = raw
    /\ cout' = EventIdDecode(raw)
    /\ last' = Call("EventId::decode", NoUid, raw, NoUid, DecodeReturns(EventIdDecode(raw)))
    /\ UNCHANGED <<cin, regVars, trieVars, workerVars, queryVars, doc, profile, pureVars>>

NextDecode == \E w \in DecodeWords : DecodeWord(w)

SpecDecode == Init /\ [][NextDecode]_vars

\* ------------------------------------------------------------------------
\* Properties of the ledger
\* ------------------------------------------------------------------------
Returned == {calls[k] : k \in DOMAIN calls}

\* the edges of the trie: every (position, event) pair that has an entry
Edges(nx) == UNION {{Uid(s, e) : e \in DOMAIN nx[s]} : s \in DOMAIN nx}

EventsOf(c) == [i \in 1..Len(c) |-> c[i].event]

\* C1: for every Uid a worker's insert_start / insert calls returned,
\* get_chain of that Uid is the list of Uids returned to the worker along
\* that chain, root first.
C1_ChainReproduced ==
    \A w \in Workers : chain[w] # << >> => GetChain(prev, cur[w]) = chain[w]

\* C2: next and prev are mutual inverses: prev[t] = (s, e) implies
\* next[s][e] = t, and next[s][e] = t implies prev[t] = (s, e).
C2_MutualInverse ==
    /\ \A t \in DOMAIN prev : GetNextSeqId(next, prev[t]) = t
    /\ \A u \in Edges(next) : GetPrev(prev, GetNextSeqId(next, u)) = u

\* two workers that inserted the same event sequence hold the same Uids
C3_SameEventsSameUids ==
    \A w1, w2 \in Workers : EventsOf(chain[w1]) = EventsOf(chain[w2]) => chain[w1] = chain[w2]

\* a call that repeats an earlier (parent, event) pair
C3_RepeatAllocatesNothing ==
    (/\ last'.op \in {"insert_start", "insert"}
     /\ last'.ok
     /\ <<last'.parent, last'.event>> \in DOMAIN calls)
    => (last'.ret = calls[<<last'.parent, last'.event>>] /\ UNCHANGED trieVars)

\* C3: deduplication.  Two workers that inserted the same event sequence
\* hold the same Uid sequence, and a call that repeats an earlier
\* (parent, event) pair returns the Uid of the first call and changes none
\* of next, prev, start_events, next_seq_id.
C3_Dedup == [](C3_SameEventsSameUids) /\ [][C3_RepeatAllocatesNothing]_vars

\* two workers have inserted the same two-event sequence
C3_Witness ==
    /\ Len(chain["w1"]) >= 2
    /\ chain["w1"] = chain["w2"]
    /\ last.op = "insert"

\* an insert call fails iff its parent was never returned
C6_FailsIffUnknown ==
    last'.op = "insert" =>
        /\ last'.ok <=> last'.parent \in Returned
        /\ ~last'.ok => UNCHANGED trieVars

C6_ReturnedHavePosition == \A u \in Returned : GetNextSeqId(next, u) # None

\* C6: insert fails exactly when the parent was never returned by an
\* earlier insert_start / insert, a failed insert changes none of next,
\* prev, start_events, next_seq_id, and every returned Uid has a position.
C6_UnknownParent == [](C6_ReturnedHavePosition) /\ [][C6_FailsIffUnknown]_vars

\* an insert on an unknown parent has failed on a ledger that is not empty
C6_Witness ==
    /\ last.op = "insert"
    /\ ~last.ok
    /\ last.parent \notin Returned
    /\ Cardinality(Returned) >= 2

\* one entry of start_events and of next[0] for each root event given
C7_OneEntryPerRoot ==
    \A k \in DOMAIN calls : k[1] = NoUid =>
        /\ Cardinality({i \in 1..Len(start_events) : start_events[i] = Uid(0, k[2])}) = 1
        /\ 0 \in DOMAIN next
        /\ k[2] \in DOMAIN next[0]

\* an insert_start call with a root event given before
C7_RepeatedRoot ==
    (last'.op = "insert_start" /\ <<NoUid, last'.event>> \in DOMAIN calls)
    => /\ last'.ret = calls[<<NoUid, last'.event>>]
       /\ last'.ret.seq_id = 0
       /\ UNCHANGED trieVars

\* C7: insert_start with a root event given before returns the same Uid
\* with seq_id 0, leaves next_seq_id and the tables unchanged, and
\* start_events and next[0] hold exactly one entry for each root event.
C7_InsertStartIdempotent == [](C7_OneEntryPerRoot) /\ [][C7_RepeatedRoot]_vars

\* both workers have called insert_start with the same root event
C7_Witness ==
    /\ last.op = "insert_start"
    /\ chain["w1"] = chain["w2"]
    /\ Len(chain["w1"]) = 1

\* C8: with every call atomic, no seq_id is assigned to two different
\* edges, and no registered edge is lost from next or prev.
C8_OneSeqIdPerEdge ==
    /\ \A u1, u2 \in Edges(next) :
          GetNextSeqId(next, u1) = GetNextSeqId(next, u2) => u1 = u2
    /\ \A u \in Returned :
          GetNextSeqId(next, u) # None /\ GetPrev(prev, GetNextSeqId(next, u)) = u

\* ------------------------------------------------------------------------
\* Properties of the search
\* ------------------------------------------------------------------------
Range(q) == {q[i] : i \in 1..Len(q)}

\* a Uid known to the ledger whose get_next is empty
Terminals == {u \in Edges(next) : GetNext(next, u) = << >>}

\* the predicates of f are satisfied, in order and not necessarily
\* contiguously, by events of evs
SubseqMatch(f, evs) ==
    \E idx \in [1..Len(f) -> 1..Len(evs)] :
        /\ \A i, j \in 1..Len(f) : i < j => idx[i] < idx[j]
        /\ \A i \in 1..Len(f) : Matches(evs[idx[i]], f[i])

\* C4: the search reports a terminal Uid t iff the filter matches a
\* subsequence of the events of the root-to-terminal chain of t.
C4_SubsequenceOfChain ==
    qpc = "done" =>
        \A t \in Edges(next) :
            t \in Range(found_uids)
                <=> (t \in Terminals /\ SubseqMatch(qfilter, EventsOf(GetChain(prev, t))))

\* C5: with an empty filter the search returns every terminal Uid of the
\* ledger and no other Uid.
C5_EmptyFilterAllTerminals ==
    (qpc = "done" /\ qfilter = << >>) => Range(found_uids) = Terminals

\* an empty-filter search has ended on a ledger with two terminals and a
\* Uid that is not a terminal
C5_Witness ==
    /\ qpc = "done"
    /\ qfilter = << >>
    /\ Cardinality(Terminals) >= 2
    /\ Edges(next) \ Terminals # {}
    /\ Cardinality(Range(found_uids)) >= 2

\* ------------------------------------------------------------------------
\* Properties of the codec and of the registry
\* ------------------------------------------------------------------------
\* C9: decoding the word produced by EventId::encode yields the event type
\* and the src_id that were encoded.
C9_DecodeEncode == cout # NoEvent => cout = cin

\* a material scattering event with a direction and a src_id that uses
\* both bytes has been encoded and decoded
C9_Witness ==
    /\ cout # NoEvent
    /\ Len(cin.event_type) = 5
    /\ cin.event_type[5] = "Side"
    /\ cin.src_id = 65535

\* a with_matsurf call that returns, on a group bound to a Surf id
C10_PromotionStep ==
    (/\ last'.op = "with_matsurf"
     /\ last'.ok
     /\ regs' = regs + 1
     /\ last'.grp \in DOMAIN grps
     /\ grps[last'.grp].kind = "Surf")
    => /\ last'.src.kind = "MatSurf"
       /\ grps'[last'.grp] = last'.src
       /\ next_matsurf_id' = next_matsurf_id - 1

\* C10: with_matsurf on a group that with_surf bound to a Surf id leaves
\* grps[g] equal to the MatSurf id it returns and takes exactly one unit
\* from next_matsurf_id.
C10_PromotionRekeysGroup == [][C10_PromotionStep]_vars

\* a with_matsurf call that returns, on a group bound to a Surf id whose
\* names are in src_map: the returned id holds the old names and the new
C11_PromotionStep ==
    (/\ last'.op = "with_matsurf"
     /\ last'.ok
     /\ regs' = regs + 1
     /\ last'.grp \in DOMAIN grps
     /\ grps[last'.grp].kind = "Surf"
     /\ grps[last'.grp] \in DOMAIN src_map)
    => /\ last'.src \in DOMAIN src_map'
       /\ Range(src_map[grps[last'.grp]]) \subseteq Range(src_map'[last'.src])
       /\ last'.name \in Range(src_map'[last'.src])

\* C11: after with_surf(s1, Some(g)) and with_matsurf(obj, mat, Some(g))
\* returning MatSurf(n), src_map[MatSurf(n)] holds the surface name s1 and
\* the new name obj:mat; no name is dropped.
C11_PromotionKeepsNames == [][C11_PromotionStep]_vars

\* a with_surf call on a group for which with_surf returned before, or a
\* with_matsurf call on a group that with_matsurf created and returned
\* before: the same SrcId, no counter moves
C12_ReuseStep ==
    (/\ last'.op \in {"with_surf", "with_matsurf"}
     /\ regs' = regs + 1
     /\ <<last'.op, last'.grp>> \in DOMAIN first_ret
     /\ last'.op = "with_matsurf" => grps[last'.grp].kind = "MatSurf")
    => /\ last'.ok
       /\ last'.src = first_ret[<<last'.op, last'.grp>>]
       /\ last'.op = "with_surf" => next_surf_id' = next_surf_id
       /\ last'.op = "with_matsurf" => next_matsurf_id' = next_matsurf_id

\* C12: a second with_surf(_, Some(g)) returns the SrcId of the first and
\* does not advance next_surf_id; a second with_matsurf(_, _, Some(g)) on
\* a group created by with_matsurf returns the same SrcId and does not
\* change next_matsurf_id.
C12_GroupReuse == [][C12_ReuseStep]_vars

\* with_surf and with_matsurf have each been called twice on a group of
\* their own
C12_Witness ==
    \E g, h \in DOMAIN grps :
        /\ <<"with_surf", g>> \in DOMAIN first_ret
        /\ grps[g].kind = "Surf"
        /\ grps[g] \in DOMAIN src_map
        /\ Len(src_map[grps[g]]) = 2
        /\ \A i \in 1..2 : src_map[grps[g]][i].kind = "Surf"
        /\ <<"with_matsurf", h>> \in DOMAIN first_ret
        /\ grps[h].kind = "MatSurf"
        /\ Len(src_map[grps[h]]) = 2
        /\ \A i \in 1..2 : src_map[grps[h]][i].kind = "MatSurf"

\* a registry call that returns: the name is the last one under its id,
\* and the only one for an ungrouped registration
C13_NameStep ==
    (/\ last'.op \in {"with_light", "with_mat", "with_surf", "with_matsurf"}
     /\ regs' = regs + 1
     /\ last'.ok)
    => /\ last'.src \in DOMAIN src_map'
       /\ src_map'[last'.src][Len(src_map'[last'.src])] = last'.name
       /\ last'.grp = NoGroup => src_map'[last'.src] = <<last'.name>>

\* C13: after a successful with_mat, with_surf, with_matsurf or with_light
\* call returning id, src_map[id] exists and ends with the name just
\* registered; for an ungrouped registration it is that name alone.
C13_NameRegistered == [][C13_NameStep]_vars

\* a grouped registration has added a second name under an id, and an
\* ungrouped one has registered a single name
C13_Witness ==
    /\ last.op = "with_surf" /\ last.ok /\ last.grp # NoGroup
    /\ Len(src_map[last.src]) = 2
    /\ \E id \in DOMAIN src_map : id.kind = "Mat" /\ Len(src_map[id]) = 1

\* ------------------------------------------------------------------------
\* Properties of persistence and of the text forms
\* ------------------------------------------------------------------------
\* the ledger read back from the document just written has the fields of
\* the ledger written, and answers get_chain, get_next and the insert
\* lookup as the ledger written does
C14_PersistStep ==
    doc' # doc =>
        \E D \in {Deserialize(doc')} :
            /\ D # DecodeErr
            /\ D = LedgerValue
            /\ \A u \in Edges(next) \cup ForeignUids :
                  /\ GetNextSeqId(D.next, u) = GetNextSeqId(next, u)
                  /\ GetNext(D.next, u) = GetNext(next, u)
                  /\ u \in Edges(next) => GetChain(D.prev, u) = GetChain(prev, u)
                  /\ \A e \in Events :
                        GetNextSeqId(next, u) # None =>
                            InsertEntry(D.next, D.prev,
                                        Uid(GetNextSeqId(D.next, u), Encoded[e]), D.next_seq_id)
                          = InsertEntry(next, prev,
                                        Uid(GetNextSeqId(next, u), Encoded[e]), next_seq_id)

\* C14: persisting a ledger and restoring it yields a ledger on which
\* get_chain, get_next and the search return what they return on the
\* original, and on which later inserts return the same Uids.
C14_RoundTrip == [][C14_PersistStep]_vars

\* a ledger with names, a group and two branching chains has been written
\* and read back, and an insert has been made on the ledger read back
C14_Witness ==
    /\ doc # NoDoc
    /\ DOMAIN doc.src_map # {}
    /\ DOMAIN doc.grps # {}
    /\ Cardinality(DOMAIN doc.prev) >= 2
    /\ \E t \in DOMAIN doc.next : Cardinality(DOMAIN doc.next[t]) >= 2
    /\ last.op = "insert"
    /\ last.ok
    /\ calls # EmptyMap
    /\ next_seq_id > doc.next_seq_id

\* C15: Uid::decode(Uid::encode(u)) = u, the key carries seq_id in its
\* high 32 bits and event in its low 32 bits, and distinct Uids have
\* distinct keys.
C15_KeyRoundTrip ==
    /\ last.op \in {"Uid::encode", "Uid::decode"} =>
          /\ uid_key = uid_in.seq_id \o uid_in.event
          /\ \A s \in KeyWords, e \in KeyWords :
                UidEncode([seq_id |-> s, event |-> e]) = uid_key
                    => [seq_id |-> s, event |-> e] = uid_in
    /\ last.op = "Uid::decode" => uid_out = uid_in

\* a Uid whose seq_id and event use all 32 bits has been encoded and
\* decoded
C15_Witness ==
    /\ last.op = "Uid::decode"
    /\ uid_in.seq_id = <<65535, 65535>>
    /\ uid_in.event = <<65535, 2>>
    /\ uid_out = uid_in

\* a hex digit, upper or lower case
IsHexDigit(c) == c \in Range(UpperHex) \cup Range(LowerHex)

\* 8 hex digits, "_", 8 hex digits, after one leading "0x" if there is one
WellFormedUid(text) ==
    LET s == IF StartsWith(text, Chars("0x")) THEN Slice(text, 2, Len(text)) ELSE text
    IN  /\ Len(s) = 17
        /\ \A i \in (1..8) \cup (10..17) : IsHexDigit(s[i])
        /\ s[9] = "_"

\* C16: Uid parsing accepts exactly 8 hex digits, "_", 8 hex digits (after
\* a leading 0x is stripped) and returns an error value, never a panic and
\* never a Uid, for every other text.
C16_ParseExact ==
    last.op = "Uid::from_str" =>
        /\ uid_parsed # UidPanic
        /\ WellFormedUid(uid_text) <=> uid_parsed \notin {UidErr, UidPanic}

\* the SrcId constraint does not fit the pipeline of the step
Incompatible(pipeline, src_id) ==
    \/ pipeline = "MCRT" /\ src_id.kind = "Light"
    \/ pipeline = "Emission" /\ src_id.kind \in {"Mat", "Surf", "MatSurf"}
    \/ pipeline = "Detection" /\ src_id # SrcNone

\* C17: for every arity of filter_seq!, an MCRT step with a Light
\* constraint, an Emission step with a Mat/Surf/MatSurf constraint and a
\* Detection step with any constraint but SrcId::None abort the
\* construction and yield no BitsMatch.
C17_IncompatibleIsFatal ==
    (last.op = "filter_seq" /\ Incompatible(fargs[1], fargs[Len(fargs)]))
        => built = FilterPanic

\* a registry call never moves an ascending counter down or the
\* descending counter up
C18_NoWrapStep ==
    (last'.op \in {"with_light", "with_mat", "with_surf", "with_matsurf"} /\ regs' = regs + 1)
    => /\ next_mat_id' >= next_mat_id
       /\ next_surf_id' >= next_surf_id
       /\ next_light_id' >= next_light_id
       /\ next_matsurf_id' <= next_matsurf_id

\* C18: no allocator silently wraps: with a counter at the end of its
\* range the next allocating call fails instead of wrapping around and
\* handing out an id that is already allocated.
C18_NoSilentWrap == [][C18_NoWrapStep]_vars

\* a with_surf or with_matsurf call on a group bound to a Light id
C19_LightGroupStep ==
    (/\ last'.op \in {"with_surf", "with_matsurf"}
     /\ regs' = regs + 1
     /\ last'.grp \in DOMAIN grps
     /\ grps[last'.grp].kind = "Light")
    => /\ ~last'.ok
       /\ UNCHANGED <<grps, src_map, next_mat_id, next_surf_id, next_matsurf_id, next_light_id>>

\* C19: a with_surf or with_matsurf call naming a group that is bound to a
\* Light SrcId aborts and allocates no id, changes neither grps nor
\* src_map.
C19_LightGroupRejected == [][C19_LightGroupStep]_vars

\* with_matsurf has been called on a group bound to a Light id and has
\* panicked
C19_Witness ==
    /\ last.op = "with_matsurf"
    /\ ~last.ok
    /\ last.grp \in DOMAIN grps
    /\ grps[last.grp].kind = "Light"
    /\ grps[last.grp] \in DOMAIN src_map

\* the event type of a decode that reports a decode error to its caller
DecodeError == <<"DecodeError">>

\* the pipeline code of the word is none of Emission, Mcrt, Detection
UnsupportedPipeline(raw) ==
    (raw \div Pow2(PipelineShift)) % Pow2(PipelineBits)
        \notin {PipelineCodes["Emission"], PipelineCodes["Mcrt"], PipelineCodes["Detection"]}

\* C20: decoding a word whose pipeline code is not a supported pipeline, or
\* whose sub-type code is outside its enumeration, yields a decode-error
\* result; it never yields a taxonomy path and never aborts.
C20_UnsupportedIsDecodeError ==
    last.op = "EventId::decode" =>
        /\ last.ok
        /\ UnsupportedPipeline(craw) => cout.event_type = DecodeError
        /\ cout.event_type \in TaxonomyPaths \cup {DecodeError}

\* ------------------------------------------------------------------------
\* Properties of the trie as it grows
\* ------------------------------------------------------------------------
\* a ledger grown as one chain: one root, one continuation at every position
Unbranched ==
    /\ Len(start_events) = 1
    /\ \A s \in DOMAIN next : Cardinality(DOMAIN next[s]) = 1

\* what insert_start and insert return
C21_ReturnStep ==
    /\ last'.op = "insert_start" => last'.ret = Uid(0, last'.event)
    /\ (last'.op = "insert" /\ last'.ok) =>
          last'.ret = Uid(next[last'.parent.seq_id][last'.parent.event], last'.event)

\* in an unbranched ledger the k-th Uid of a chain sits at seq_id k
C21_ChainPositions ==
    Unbranched =>
        /\ DOMAIN next = 0..(Cardinality(Edges(next)) - 1)
        /\ \A w \in Workers : \A k \in 1..Len(chain[w]) : chain[w][k].seq_id = k - 1

\* C21: insert_start returns a Uid with seq_id 0, insert(parent, e) returns
\* (next[parent.seq_id][parent.event], encode(e)), and in a ledger grown
\* from empty as one unbranched chain with one root the k-th inserted event
\* (counted from 0) has seq_id k.
C21_SeqIdIsPosition == [](C21_ChainPositions) /\ [][C21_ReturnStep]_vars

\* a worker has inserted a root and two events under it, one after another
C21_Witness ==
    /\ Unbranched
    /\ last.op = "insert"
    /\ last.ok
    /\ \E w \in Workers : Len(chain[w]) = 3 /\ chain[w][3] = last.ret /\ last.ret.seq_id = 2

\* the seq_ids the ledger holds
SeqIds == DOMAIN next \cup DOMAIN prev

\* C22: every edge points strictly forward: next[s][e] = t implies t > s,
\* prev[t] = (s, e) implies s < t; so following prev from any seq_id of the
\* ledger, as get_chain does, ends at seq_id 0 after finitely many steps.
C22_EdgesForward ==
    /\ \A u \in Edges(next) : next[u.seq_id][u.event] > u.seq_id
    /\ \A t \in DOMAIN prev : prev[t].seq_id < t
    /\ \A t \in SeqIds \ {0} :
          LET walk == ChainBack(prev, t, Cardinality(DOMAIN prev))
          IN  /\ walk # << >>
              /\ walk[1].seq_id = 0
              /\ \A i \in 1..Len(walk) : walk[i] # NoUid
    /\ 0 \notin DOMAIN prev

\* a branching ledger three positions deep
C22_Witness ==
    /\ Cardinality(Edges(next)) >= 4
    /\ \E s \in DOMAIN next : Cardinality(DOMAIN next[s]) = 2
    /\ \E t \in DOMAIN prev : Len(ChainBack(prev, t, Cardinality(DOMAIN prev))) >= 3

\* the seq_ids handed out so far: the values of next
Assigned(nx) == {nx[u.seq_id][u.event] : u \in Edges(nx)}

\* an insert call that registered a new edge
C23_AllocationStep ==
    /\ next_seq_id' >= next_seq_id
    /\ (last'.op = "insert" /\ last'.ok /\ next' # next) =>
          LET t == next'[last'.ret.seq_id][last'.ret.event]
          IN  /\ t # 0
              /\ t \notin DOMAIN prev
              /\ \A a \in Assigned(next) : a < t
              /\ next_seq_id' > t

C24_EntriesKept ==
    /\ \A u \in Edges(next) : GetNextSeqId(next', u) = next[u.seq_id][u.event]
    /\ \A t \in DOMAIN prev : GetPrev(prev', t) = prev[t]

\* C24: the ledger only grows: once next[s][e] = t or prev[t] = (s, e)
\* exists, every later insert_start or insert leaves the entry present with
\* the same value.
C24_GrowOnly == [][C24_EntriesKept]_vars

\* the Uids returned by insert calls with parent u
InsertedUnder(u) == {calls[k] : k \in {c \in DOMAIN calls : c[1] = u}}

\* C25: for every Uid u known to the ledger, get_next(u) lists exactly the
\* Uids returned by earlier insert(u, e) calls with that parent, each once;
\* for a Uid unknown to the ledger it is empty.
C25_ChildrenExact ==
    \A u \in Edges(next) \cup ForeignUids :
        LET next_uids == GetNext(next, u)
        IN  /\ Range(next_uids) = InsertedUnder(u)
            /\ Cardinality(Range(next_uids)) = Len(next_uids)

\* the root events the ledger holds: the keys of next[0]
RootEvents == IF 0 \in DOMAIN next THEN DOMAIN next[0] ELSE {}

\* C26: start_events has no duplicate, holds only Uids with seq_id 0, and
\* is the set {(0, e) : e a key of next[0]}, the distinct root events
\* passed to insert_start.
C26_StartEventsAreRoots ==
    /\ Cardinality(Range(start_events)) = Len(start_events)
    /\ \A i \in 1..Len(start_events) : start_events[i].seq_id = 0
    /\ Range(start_events) = {Uid(0, e) : e \in RootEvents}
    /\ RootEvents = {k[2] : k \in {c \in DOMAIN calls : c[1] = NoUid}}

\* a second root was given after the first one had continuations, and a
\* root has been given again
C26_Witness ==
    /\ Len(start_events) = 2
    /\ next_seq_id > 2
    /\ last.op = "insert_start"
    /\ chain["w1"] = chain["w2"]

\* ------------------------------------------------------------------------
\* Properties of the search
\* ------------------------------------------------------------------------
\* C27: find_forward_uid_seq terminates on every ledger built by
\* insert_start / insert calls and every filter sequence: a search that has
\* started reaches the point where its work queue is empty and it returns.
C27_SearchTerminates == (qpc = "run") ~> (qpc = "done" /\ seq_queue = << >>)

\* a search with a filter has returned on a ledger with two roots and
\* chains of three events
C27_Witness ==
    /\ qpc = "done"
    /\ seq_queue = << >>
    /\ qfilter # << >>
    /\ Len(start_events) = 2
    /\ \E t \in DOMAIN prev : Len(ChainBack(prev, t, Cardinality(DOMAIN prev))) >= 3

\* C28: the result of find_forward_uid_seq is a set: for every ledger, also
\* one with several distinct root events, and every filter, no Uid is in
\* the returned list more than once.
C28_ResultIsSet ==
    qpc = "done" => Cardinality(Range(found_uids)) = Len(found_uids)

\* ------------------------------------------------------------------------
\* Properties of the filter layout
\* ------------------------------------------------------------------------
\* the typed variant that a selector of the raw layer names
TypedVariant(k) == IF k = "CompRetroRef" THEN "CompositeRetroReflective" ELSE k

\* the taxonomy path that the selectors of an invocation spell out
TypedPath(a) == [i \in 1..(Len(a) - 1) |-> TypedVariant(a[i])]

\* an MCRT step with every selector given and a numeric id
FullySpecified(a) ==
    /\ a # << >>
    /\ a[1] = "MCRT"
    /\ TypedPath(a) \in McrtPaths
    /\ a[Len(a)] # SrcNone

\* C29: filter layout agrees with codec layout.  For every MCRT taxonomy
\* path given with all selectors and every SrcId of kind Mat, Surf or
\* MatSurf, the BitsMatch built by filter_seq! is satisfied by the encoding
\* of that path with that numeric id, and by the encoding of no event that
\* differs in pipeline, in a taxonomy level or in the numeric id.
C29_LayoutAgrees ==
    (FullySpecified(fargs) /\ cin.event_type # << >>) =>
        /\ built # FilterPanic
        /\ Matches(craw, built) <=> cin = EventId(TypedPath(fargs), fargs[Len(fargs)].id)

\* a step for Mie forward scattering in material 1 next to that event
C29_Witness ==
    /\ fargs = <<"MCRT", "Material", "Elastic", "Mie", "Forward", SrcId("Mat", 1)>>
    /\ cin = EventId(<<"MCRT", "Material", "Elastic", "Mie", "Forward">>, 1)
    /\ Matches(craw, built)

\* the selectors of an invocation: what stands between the pipeline and the
\* SrcId
SelectorIndices(a) == 2..(Len(a) - 1)

\* an invocation with a wildcard level or without a SrcId constraint
HasAbsentSelector(a) ==
    /\ a # << >>
    /\ \/ \E i \in SelectorIndices(a) : a[i] = "_"
       \/ a[Len(a)] = SrcNone

\* the bits of the taxonomy level that the i-th argument selects
LevelMask(a, i) ==
    CASE i = 3 -> RawMask(a[2])
      [] i = 4 -> RawMask("Elastic")
      [] i = 5 -> RawMask("ScatterDir")

\* the bits of the levels given as "_" and of an absent SrcId
AbsentBits(a) ==
    LET S == {LevelMask(a, i) : i \in {j \in SelectorIndices(a) : a[j] = "_"}}
             \cup (IF a[Len(a)] = SrcNone THEN {SrcIdMask} ELSE {})
        bit(k) == \E m \in S : (m \div Pow2(k)) % 2 = 1
    IN  {k \in 0..30 : bit(k)}

\* the event agrees with the invocation on every level that is given
Agrees(a, ev) ==
    /\ ev.event_type[1] = a[1]
    /\ \A i \in SelectorIndices(a) :
          a[i] # "_" => (i <= Len(ev.event_type) /\ ev.event_type[i] = TypedVariant(a[i]))
    /\ a[Len(a)] # SrcNone => ev.src_id = a[Len(a)].id

\* C30: an absent selector contributes zero bits: a taxonomy level given
\* as "_" and a SrcId constraint given as SrcId::None add no bits to the
\* mask of the step built by filter_seq!, so the step is satisfied by every
\* encoded event that agrees on the levels given, whatever its value at the
\* wildcard levels and in its low 16 bits; the build does not fail.
C30_AbsentSelectorNoBits ==
    (HasAbsentSelector(fargs) /\ cin.event_type # << >>) =>
        /\ built.mask >= 0
        /\ \A k \in AbsentBits(fargs) : (built.mask \div Pow2(k)) % 2 = 0
        /\ Agrees(fargs, cin) => Matches(craw, built)

\* ------------------------------------------------------------------------
\* Properties of the codec fields
\* ------------------------------------------------------------------------
\* bits 16-23 of the word
TaxonomyBits == 255 * Pow2(16)

\* the word without its low 16 bits
High(raw) == raw - BitAnd(raw, SrcIdMask)

\* C31: codec fields never overlap.  The low 16 bits of EventId::encode
\* are the src_id (0 for SrcId::None, the number for Mat, Surf, MatSurf and
\* Light), the encoding of the event type has no bit in the low 16 bits,
\* and the MCRT taxonomy lies within bits 16-23, apart from the pipeline
\* bits.
C31_FieldsDisjoint ==
    cin # NoEvent =>
        LET type_code == EventIdEncode(EventId(cin.event_type, 0))
        IN  /\ BitAnd(craw, SrcIdMask) = cin.src_id
            /\ High(craw) = type_code
            /\ BitAnd(type_code, SrcIdMask) = 0
            /\ \A k \in {"Mat", "Surf", "MatSurf", "Light"} :
                  BitAnd(craw, SrcIdMask) = SrcIdEncode([kind |-> k, id |-> cin.src_id])
            /\ SrcIdEncode([kind |-> "None", id |-> 0]) = 0
            /\ BitAnd(TaxonomyBits, PipelineMask) = 0
            /\ cin.event_type[1] = "MCRT" =>
                  /\ BitAnd(type_code, TaxonomyBits) = MCRTEncode(Tail2(cin.event_type))
                  /\ type_code = BitOr(PipelineEncode("Mcrt"), MCRTEncode(Tail2(cin.event_type)))
                  /\ BitAnd(type_code, PipelineMask) = PipelineEncode("Mcrt")

\* backward spherical scattering with every bit of the src_id set
C31_Witness ==
    /\ cin = EventId(<<"MCRT", "Material", "Elastic", "SphericalCdf", "Backward">>, 65535)
    /\ craw = EventIdEncode(cin)
    /\ cout = cin

\* ------------------------------------------------------------------------
\* Properties of the id ranges
\* ------------------------------------------------------------------------
\* the registry with the ranges apart: for a call that draws from the Mat
\* or Surf range the MatSurf range untouched, for a call that draws from
\* the MatSurf range the Mat and Surf ranges untouched
Apart(R, op) ==
    IF op = "with_matsurf" THEN [R EXCEPT !.next_mat_id = 0, !.next_surf_id = 0]
    ELSE [R EXCEPT !.next_matsurf_id = U16Max]

\* what the call made in the last step does on registry R
Redo(R, c) ==
    CASE c.op = "with_mat" -> CheckIds(WithMatCalc(R, c.name.text[1]))
      [] c.op = "with_surf" -> CheckIds(WithSurfCalc(R, c.name.text[1], c.grp))
      [] c.op = "with_matsurf" ->
            CheckIds(WithMatsurfCalc(R, c.name.text[1], c.name.text[3], c.grp))

\* a call made while ranges have met does what it does with them apart
C32_CrossingStep ==
    (/\ last'.op \in {"with_mat", "with_surf", "with_matsurf"}
     /\ regs' # regs
     /\ Crossings(Registry) # {}
     /\ Crossings(Apart(Registry, last'.op)) = {})
    => LET o == Redo(Apart(Registry, last'.op), last')
       IN  /\ last'.ok = o.ok
           /\ last'.src = o.ret
           /\ src_map' = o.R.src_map
           /\ grps' = o.R.grps
           /\ next_light_id' = o.R.next_light_id
           /\ last'.op = "with_matsurf" =>
                 /\ next_matsurf_id' = o.R.next_matsurf_id
                 /\ next_mat_id' = next_mat_id /\ next_surf_id' = next_surf_id
           /\ last'.op # "with_matsurf" =>
                 /\ next_mat_id' = o.R.next_mat_id
                 /\ next_surf_id' = o.R.next_surf_id
                 /\ next_matsurf_id' = next_matsurf_id
           /\ last'.ok => last'.warned # {}

\* C32: range crossing is warning-only.  A with_mat, with_surf or
\* with_matsurf call made when next_mat_id >= next_matsurf_id or
\* next_surf_id >= next_matsurf_id succeeds where the same call with the
\* ranges apart succeeds, returns the same id and updates the counters and
\* src_map in the same way; the crossing is logged.
C32_CrossingWarnsOnly == [][C32_CrossingStep]_vars

\* a registration has succeeded, with a warning, after the ranges had met
C32_Witness ==
    /\ last.op \in {"with_mat", "with_surf", "with_matsurf"}
    /\ last.ok
    /\ last.warned # {}
    /\ last.src.kind \in {"Mat", "Surf"} => last.src.id >= next_matsurf_id
    /\ last.src.kind = "MatSurf" => last.src.id < next_mat_id

\* the counter an operation allocates from when it names no group, and the
\* kind of id it returns
CounterOf(op) ==
    CASE op = "with_light" -> "next_light_id"
      [] op = "with_mat" -> "next_mat_id"
      [] op = "with_surf" -> "next_surf_id"
      [] op = "with_matsurf" -> "next_matsurf_id"

KindOf(op) ==
    CASE op = "with_light" -> "Light"
      [] op = "with_mat" -> "Mat"
      [] op = "with_surf" -> "Surf"
      [] op = "with_matsurf" -> "MatSurf"

\* the four counters of the ledger after the step
RegistryNext ==
    [next_mat_id |-> next_mat_id', next_surf_id |-> next_surf_id',
     next_matsurf_id |-> next_matsurf_id', next_light_id |-> next_light_id']

\* a returning call that names no group hands out the id its counter
\* stands at, moves that counter one step in its direction and leaves the
\* other three alone, so that the k-th such call from a new ledger gets
\* the k-th id of its range; no call moves a counter backwards
C33_CounterStep ==
    (last'.op \in {"with_light", "with_mat", "with_surf", "with_matsurf"} /\ regs' = regs + 1)
    => /\ (last'.ok /\ last'.grp = NoGroup) =>
            LET c == CounterOf(last'.op)
            IN  /\ last'.src = SrcId(KindOf(last'.op), Registry[c])
                /\ RegistryNext[c] = IF c = "next_matsurf_id" THEN Registry[c] - 1
                                                              ELSE Registry[c] + 1
                /\ \A d \in {"next_mat_id", "next_surf_id", "next_matsurf_id",
                              "next_light_id"} \ {c} : RegistryNext[d] = Registry[d]
       /\ next_mat_id' >= next_mat_id
       /\ next_surf_id' >= next_surf_id
       /\ next_light_id' >= next_light_id
       /\ next_matsurf_id' <= next_matsurf_id

\* C33: the id counters are independent and monotonic: the k-th ungrouped
\* with_mat returns Mat(k-1), the k-th ungrouped with_surf Surf(k-1), the
\* k-th with_light Light(k-1) and the k-th ungrouped with_matsurf
\* MatSurf(65535-(k-1)), however calls of the other kinds are interleaved,
\* and no registration moves a counter backwards.
C33_CountersIndependentMonotonic == [][C33_CounterStep]_vars

\* group g has been promoted: with_surf first gave it a Surf id and a
\* with_matsurf call naming it has returned since
Promoted(g) ==
    /\ <<"with_surf", g>> \in DOMAIN first_ret
    /\ first_ret[<<"with_surf", g>>].kind = "Surf"
    /\ <<"with_matsurf", g>> \in DOMAIN first_ret

\* a with_surf or with_matsurf call naming a promoted group returns the
\* MatSurf id of the promotion and leaves next_matsurf_id alone
C34_LaterCallStep ==
    (/\ last'.op \in {"with_surf", "with_matsurf"}
     /\ regs' = regs + 1
     /\ last'.grp # NoGroup
     /\ Promoted(last'.grp))
    => /\ last'.ok
       /\ last'.src = first_ret[<<"with_matsurf", last'.grp>>]
       /\ next_matsurf_id' = next_matsurf_id

\* C34: a group is promoted at most once: after with_matsurf has promoted
\* group g from Surf to MatSurf, every later with_surf or with_matsurf call
\* naming g completes without a fatal error, returns the MatSurf id that
\* the promotion returned and takes nothing more from next_matsurf_id.
C34_PromotedOnce == [][C34_LaterCallStep]_vars

\* C35: through with_light, with_mat, with_surf and with_matsurf the group
\* table only ever binds a group name to a Surf or a MatSurf id; no group
\* is bound to a Mat, Light or None id, so the Mat-promotion branch and the
\* Light/None rejection branches of with_surf and with_matsurf are never
\* taken.
C35_GroupsBindSurfaces ==
    \A g \in DOMAIN grps : grps[g].kind \in {"Surf", "MatSurf"}

\* one group is bound to a Surf id and another to a MatSurf id, and a
\* grouped call has just gone through the lookup of a known group
C35_Witness ==
    /\ \E g \in DOMAIN grps : grps[g].kind = "Surf"
    /\ \E g \in DOMAIN grps : grps[g].kind = "MatSurf"
    /\ last.op \in {"with_surf", "with_matsurf"}
    /\ last.grp # NoGroup
    /\ <<last.op, last.grp>> \in DOMAIN first_ret
    /\ regs >= 3

\* ------------------------------------------------------------------------
\* Properties of the search and the root event
\* ------------------------------------------------------------------------
\* the events on the path of t after its root event
AfterRoot(t) == Tail1(EventsOf(GetChain(prev, t)))

\* C36: find_forward_uid_seq never tests a root event against a predicate:
\* an entry of the queue for a root (seq_id 0) carries the whole filter, and
\* a terminal t is reported iff the filter is matched as a subsequence by
\* the events on the path of t strictly after the root event.
C36_RootNeverTested ==
    /\ qpc = "run" =>
          \A i \in 1..Len(seq_queue) :
              seq_queue[i].uid.seq_id = 0 => seq_queue[i].bits_match_seq = qfilter
    /\ qpc = "done" =>
          \A t \in Edges(next) :
              t \in Range(found_uids)
                  <=> (t \in Terminals /\ SubseqMatch(qfilter, AfterRoot(t)))

\* a search has returned on a ledger with two terminals: the chain of one
\* satisfies the filter only together with its root event and is left out,
\* the path of the other satisfies it after the root and is reported
C36_Witness ==
    /\ qpc = "done"
    /\ qfilter # << >>
    /\ \E t \in Terminals :
          /\ t \notin Range(found_uids)
          /\ SubseqMatch(qfilter, EventsOf(GetChain(prev, t)))
    /\ \E t \in Terminals :
          /\ t \in Range(found_uids)
          /\ Len(AfterRoot(t)) >= 1

\* ------------------------------------------------------------------------
\* Frame properties
\* ------------------------------------------------------------------------
RegistryFields == <<grps, src_map, next_mat_id, next_surf_id, next_matsurf_id, next_light_id>>

\* what a step leaves alone, by the call that it is or that came last
C37_FrameStep ==
    /\ last'.op \in {"with_light", "with_mat", "with_surf", "with_matsurf"}
          => UNCHANGED trieVars
    /\ last'.op \in {"insert_start", "insert"}
          => UNCHANGED RegistryFields
    /\ (last'.op \in {"get_next", "get_prev", "get_chain"} \/ queryVars' # queryVars)
          => UNCHANGED <<RegistryFields, trieVars>>

\* C37: registry and trie are framed apart: with_light, with_mat, with_surf
\* and with_matsurf leave start_events, next, prev and next_seq_id
\* unchanged; insert_start and insert leave grps, src_map and the four id
\* counters unchanged; get_next, get_prev, get_chain and
\* find_forward_uid_seq leave the whole ledger unchanged.
C37_Framed == [][C37_FrameStep]_vars

\* events were recorded, then a group was promoted, then a search ran to
\* its end and reported a chain
C37_Witness ==
    /\ last.op = "with_matsurf"
    /\ last.ok
    /\ grps # EmptyMap
    /\ next_seq_id >= 3
    /\ qpc = "done"
    /\ found_uids # << >>

\* ------------------------------------------------------------------------
\* Properties of the constructed filter steps
\* ------------------------------------------------------------------------
\* filter_seq! has produced a BitsMatch
Produced == last.op = "filter_seq" /\ built \notin {FilterPanic, FilterRejected}

\* C38: every BitsMatch produced by filter_seq!, for any pipeline, any
\* arity and any legal SrcId constraint, has no value bit outside its mask
\* (value & ~mask == 0).
C38_ValueWithinMask == Produced => BitAnd(built.value, built.mask) = built.value

\* a six-argument MCRT step with a MatSurf constraint has been produced:
\* its value has bits of the pipeline, of the taxonomy and of the id
C38_Witness ==
    /\ Produced
    /\ Len(fargs) = 6
    /\ fargs[6].kind = "MatSurf"
    /\ BitAnd(built.value, SrcIdMask) = fargs[6].id
    /\ BitAnd(built.value, PipelineMask) # 0
    /\ built.value # BitAnd(built.value, BitOr(PipelineMask, SrcIdMask))

====
